---- MODULE Spec2Model ----
(***************************************************************************)
(* AtmoPredict: the /predict handler of src/src/api.py with the source     *)
(* router (src/src/data_router.py), the baseline cache and the blender     *)
(* (src/src/lstm_model_loader.py).                                         *)
(*                                                                         *)
(* Units.  Floats of the program are fixed-point integers here:            *)
(*   coordinates            quarter degrees        (latQ = 4 * latitude)   *)
(*   temperature, humidity, wind_speed   tenths    (T10 = 10 * temperature)*)
(*   precipitation          thousandths of a mm                            *)
(*   anomalies              hundredths                                     *)
(*   probabilities          1 / PScale                                     *)
(*   time                   half days: tod 0 = 00:00:00 sharp, 1 = 12:00   *)
(* A Python dict is a function over the set of its keys, so that "key in   *)
(* dict" is "key \in DOMAIN dict" and adding a key widens the domain.      *)
(***************************************************************************)
EXTENDS Integers, Sequences, FiniteSets, TLC

VARIABLES
    now,            \* datetime.now(): [y, m, d, tod]
    ticks,          \* clock steps taken (bounded)
    config,         \* what start-up left behind (api.py:62-81):
                    \*   lstm_loader "none" | "unloaded" | "loaded",
                    \*   data_router "none" | "ready",
                    \*   tables: the pattern documents the router loaded
    cache,          \* api.py:772 _climate_baseline_cache: key -> record
    inserted,       \* history: key -> the record inserted at the miss
    nreq,           \* /predict requests served (bounded)
    pc,             \* "idle", or "done": a request has just been answered
    obs             \* what the answered request did (EmptyDict when idle):
                    \*   req: the request [latitude, longitude, date]
                    \*   path: the branch of api.py:924-941 taken
                    \*   calls: its upstream provider calls, in order
                    \*   hit: answered from the baseline cache
                    \*   lookup: the record the router returned (api.py:943)
                    \*   model: what the frozen model answered, if called
                    \*   lstm_output: what lstm_loader.predict returned
                    \*   resp: the HTTP response

vars == <<now, ticks, config, cache, inserted, nreq, pc, obs>>

----------------------------------------------------------------------------
(* Bounds *)

MaxRequests == 2
MaxTicks == 1

\* probabilities are integers out of PScale (1.0 = PScale)
PScale == 60 * 1000 * 1000

----------------------------------------------------------------------------
(* Python helpers *)

Max(a, b) == IF a >= b THEN a ELSE b
Min(a, b) == IF a <= b THEN a ELSE b
Abs(a) == IF a >= 0 THEN a ELSE -a

\* d[k] = v on a dict
DictSet(d, k, v) == [x \in (DOMAIN d) \cup {k} |-> IF x = k THEN v ELSE d[x]]

\* d.get(k, default)
DictGet(d, k, default) == IF k \in DOMAIN d THEN d[k] ELSE default

EmptyDict == [x \in {} |-> 0]

\* round(n / den) of Python 3: to nearest, ties to even; den > 0
RoundHalfEven(n, den) ==
    LET q == n \div den
        r == n % den
    IN  IF 2 * r < den THEN q
        ELSE IF 2 * r > den THEN q + 1
        ELSE IF q % 2 = 0 THEN q ELSE q + 1

----------------------------------------------------------------------------
(* Calendar: datetime.strptime(..., '%Y-%m-%d') and datetime subtraction *)

IsLeap(y) == (y % 4 = 0 /\ y % 100 # 0) \/ y % 400 = 0

DaysInMonth(y, m) ==
    IF m = 2 THEN (IF IsLeap(y) THEN 29 ELSE 28)
    ELSE IF m \in {4, 6, 9, 11} THEN 30 ELSE 31

RECURSIVE DaysBeforeYear(_)
DaysBeforeYear(y) ==
    IF y <= 2026 THEN 0
    ELSE DaysBeforeYear(y - 1) + (IF IsLeap(y - 1) THEN 366 ELSE 365)

RECURSIVE DaysBeforeMonth(_, _)
DaysBeforeMonth(y, m) ==
    IF m <= 1 THEN 0 ELSE DaysBeforeMonth(y, m - 1) + DaysInMonth(y, m - 1)

\* days from 2026-01-01 to the date
DayNum(date) == DaysBeforeYear(date.y) + DaysBeforeMonth(date.y, date.m) + date.d - 1

NextDay(date) ==
    IF date.d < DaysInMonth(date.y, date.m) THEN [date EXCEPT !.d = @ + 1]
    ELSE IF date.m < 12 THEN [date EXCEPT !.m = @ + 1, !.d = 1]
    ELSE [y |-> date.y + 1, m |-> 1, d |-> 1]

Date(y, m, d) == [y |-> y, m |-> m, d |-> d]

DateOfNow(n) == Date(n.y, n.m, n.d)

\* (target_date - current_date).days: target is midnight of its day, the
\* current instant carries its time of day; timedelta.days is the floor
days_ahead(target, n) ==
    ((DayNum(target) * 2) - (DayNum(DateOfNow(n)) * 2 + n.tod)) \div 2

----------------------------------------------------------------------------
(* What the upstream providers can answer.  An observation is the set of   *)
(* weather fields every provider reports.                                  *)

Obs(t, tmax, tmin, rh, ws, pr) ==
    [temperature |-> t, temp_max |-> tmax, temp_min |-> tmin, humidity |-> rh,
     wind_speed |-> ws, precipitation |-> pr, pressure |-> 1013]

Mild == Obs(200, 250, 150, 600, 100, 10000)
Hot  == Obs(380, 400, 320, 800, 250, 60000)
Cold == Obs(20, 60, -20, 500, 300, 0)

\* every outcome is a dict: [ok |-> FALSE] is an exception (network error,
\* timeout, bad status), [ok |-> TRUE, ...] carries the provider's answer
Failure == [ok |-> FALSE]

\* OpenWeatherMap /weather: the current observation
CurrentOutcomes == {Failure} \cup {[ok |-> TRUE, main |-> o] : o \in {Mild, Hot}}

\* NASA POWER: a DataFrame, a sequence of daily rows (possibly none); the PS
\* column may be missing
NasaRow(o) ==
    [T2M |-> o.temperature, T2M_MAX |-> o.temp_max, T2M_MIN |-> o.temp_min,
     RH2M |-> o.humidity, WS2M |-> o.wind_speed, PRECTOTCORR |-> o.precipitation,
     PS |-> 1000]

NasaRowNoPS(o) == [k \in (DOMAIN NasaRow(o)) \ {"PS"} |-> NasaRow(o)[k]]

HistoricalOutcomes ==
    {Failure} \cup {[ok |-> TRUE, df |-> f] :
                        f \in {<< >>, <<NasaRow(Mild), NasaRow(Cold)>>, <<NasaRowNoPS(Hot)>>}}

\* OpenWeatherMap /forecast: data['list'], samples stamped in half days since
\* 2026-01-01 00:00 (dt); the samples start one day after the current instant
Timestamp(n) == DayNum(DateOfNow(n)) * 2 + n.tod

FcItem(n, k, o) == [dt |-> Timestamp(n) + k * 2, main |-> o]

ForecastOutcomes(n) ==
    {Failure} \cup {[ok |-> TRUE, list |-> l] :
                        l \in {<< >>,
                               <<FcItem(n, 1, Mild), FcItem(n, 2, Hot)>>,
                               <<FcItem(n, 1, Hot), FcItem(n, 3, Mild)>>}}

\* The frozen model: an exception, or its two output scalars
ModelOutcomes ==
    {Failure} \cup {[ok |-> TRUE, temperature_anomaly |-> a[1], precipitation_anomaly |-> a[2]] :
                        a \in {<<50, 60>>, <<-50, -150>>, <<0, 80>>}}

----------------------------------------------------------------------------
(* Current-conditions provider, api.py *)

\* an upstream call as the observation logs it: the provider and its answer
Call(provider, outcome) == [provider |-> provider, outcome |-> outcome]

\* get_current_weather: one upstream call; raises HTTPException on failure
get_current_weather(cur) ==
    IF ~cur.ok THEN [raised |-> TRUE, calls |-> <<Call("current", cur)>>]
    ELSE [raised |-> FALSE, calls |-> <<Call("current", cur)>>, weather |-> cur.main]

CurrentRecord(w, label) ==
    [temperature |-> w.temperature, temp_max |-> w.temp_max, temp_min |-> w.temp_min,
     humidity |-> w.humidity, wind_speed |-> w.wind_speed,
     precipitation |-> w.precipitation, pressure |-> w.pressure,
     specific_humidity |-> w.humidity \div 10, radiation |-> 2000,
     data_source |-> label]

\* get_current_weather_data
get_current_weather_data(cur) ==
    LET r == get_current_weather(cur)
    IN  IF r.raised THEN r
        ELSE [raised |-> FALSE, calls |-> r.calls,
              record |-> CurrentRecord(r.weather, "OpenWeatherMap API")]

----------------------------------------------------------------------------
(* Baseline cache and historical provider, api.py *)

\* faulty variant: a failed fetch is tried a second time
fetch_historical_data_retry(hist) ==
    IF ~hist.ok
    THEN [raised |-> TRUE, calls |-> <<Call("historical", hist), Call("historical", hist)>>]
    ELSE [raised |-> FALSE, calls |-> <<Call("historical", hist)>>, df |-> hist.df]

\* NASADataFetcher.fetch_historical_data: one upstream call; every failure is
\* re-raised as HTTPException (an Exception)
fetch_historical_data(hist) ==
    IF ~hist.ok THEN [raised |-> TRUE, calls |-> <<Call("historical", hist)>>]
    ELSE [raised |-> FALSE, calls |-> <<Call("historical", hist)>>, df |-> hist.df]

RECURSIVE ColumnSum(_, _)
ColumnSum(df, col) ==
    IF df = << >> THEN 0 ELSE df[1][col] + ColumnSum(Tail(df), col)

\* df[col].mean()
ColumnMean(df, col) == ColumnSum(df, col) \div Len(df)

\* f"NASA POWER Historical (month {target_month})"
HistoricalLabel(month) == "NASA POWER Historical (month " \o ToString(month) \o ")"

\* api.py:820-843: the field-wise means of the frame
baseline_data(df, month) ==
    [temperature |-> ColumnMean(df, "T2M"),
     temp_max |-> ColumnMean(df, "T2M_MAX"),
     temp_min |-> ColumnMean(df, "T2M_MIN"),
     humidity |-> ColumnMean(df, "RH2M"),
     wind_speed |-> ColumnMean(df, "WS2M"),
     precipitation |-> ColumnMean(df, "PRECTOTCORR"),
     pressure |-> IF "PS" \in DOMAIN df[1] THEN ColumnMean(df, "PS") ELSE 1013,
     specific_humidity |-> ColumnMean(df, "RH2M") \div 10,
     radiation |-> 2000,
     data_source |-> HistoricalLabel(month)]

\* api.py:793-796: round(lat * 2) / 2, round(lon * 2) / 2 and the month; the
\* key holds the doubled rounded coordinates (x / 2 is one-to-one)
cache_key(latQ, lonQ, date) ==
    <<RoundHalfEven(latQ, 2), RoundHalfEven(lonQ, 2), date.m>>

\* faulty variant: the historical failure is not caught, there is no fallback
get_historical_baseline_no_fallback(c, latQ, lonQ, date, hist, cur) ==
    LET key == cache_key(latQ, lonQ, date)
        f == fetch_historical_data(hist)
    IN  IF key \in DOMAIN c
        THEN [raised |-> FALSE, calls |-> << >>, record |-> c[key], hit |-> TRUE,
              aliased |-> TRUE, key |-> key]
        ELSE IF ~f.raised /\ f.df # << >>
        THEN [raised |-> FALSE, calls |-> f.calls, record |-> baseline_data(f.df, date.m),
              hit |-> FALSE, aliased |-> TRUE, key |-> key]
        ELSE [raised |-> TRUE, calls |-> f.calls, hit |-> FALSE, aliased |-> FALSE,
              key |-> key]

\* faulty variant: the current-weather fallback record is stored under the key
get_historical_baseline_caches_fallback(c, latQ, lonQ, date, hist, cur) ==
    LET key == cache_key(latQ, lonQ, date)
    IN  IF key \in DOMAIN c
        THEN [raised |-> FALSE, calls |-> << >>, record |-> c[key], hit |-> TRUE,
              aliased |-> TRUE, key |-> key]
        ELSE LET f == fetch_historical_data(hist)
                 w == get_current_weather(cur)
             IN  IF ~f.raised /\ f.df # << >>
                 THEN [raised |-> FALSE, calls |-> f.calls,
                       record |-> baseline_data(f.df, date.m), hit |-> FALSE,
                       aliased |-> TRUE, key |-> key]
                 ELSE IF w.raised
                 THEN [raised |-> TRUE, calls |-> f.calls \o w.calls,
                       hit |-> FALSE, aliased |-> FALSE, key |-> key]
                 ELSE [raised |-> FALSE, calls |-> f.calls \o w.calls,
                       record |-> CurrentRecord(w.weather, "Current Weather Baseline"),
                       hit |-> FALSE, aliased |-> TRUE, key |-> key]

\* get_historical_baseline_from_api against the cache c.  "aliased" says the
\* returned dict is the very object the cache holds under "key" (lines 800-802
\* and 846-848 return the cached object itself, not a copy).
get_historical_baseline_from_api(c, latQ, lonQ, date, hist, cur) ==
    LET key == cache_key(latQ, lonQ, date)
    IN  IF key \in DOMAIN c
        THEN [raised |-> FALSE, calls |-> << >>, record |-> c[key], hit |-> TRUE,
              aliased |-> TRUE, key |-> key]
        ELSE LET f == fetch_historical_data(hist)
             IN  IF ~f.raised /\ f.df # << >>
                 THEN [raised |-> FALSE, calls |-> f.calls,
                       record |-> baseline_data(f.df, date.m), hit |-> FALSE,
                       aliased |-> TRUE, key |-> key]
                 ELSE LET w == get_current_weather(cur)
                      IN  IF w.raised
                          THEN [raised |-> TRUE, calls |-> f.calls \o w.calls,
                                hit |-> FALSE, aliased |-> FALSE, key |-> key]
                          ELSE [raised |-> FALSE, calls |-> f.calls \o w.calls,
                                record |-> CurrentRecord(w.weather, "Current Weather Baseline"),
                                hit |-> FALSE, aliased |-> FALSE, key |-> key]

----------------------------------------------------------------------------
(* Static reference data of DataRouter (data/*.json, loaded once) *)

\* location_mapping['coordinate_regions'], in document order; degrees
coordinate_regions ==
    << [name |-> "europe", lat_range |-> <<35, 71>>, lon_range |-> <<-25, 45>>],
       [name |-> "asia",   lat_range |-> <<5, 55>>,  lon_range |-> <<60, 150>>] >>

\* what _load_all_data may have found on disk: the documents' names
TablesAll == [continent_data |-> {"europe", "asia"}, hemisphere_data |-> {"northern", "southern"}]
TablesNoContinent == [continent_data |-> {}, hemisphere_data |-> {"northern", "southern"}]
TablesNone == [continent_data |-> {}, hemisphere_data |-> {}]

\* continent_data[c]['six_month_patterns']['month_<i>']
ContinentPattern(c, i) ==
    [temperature |-> [avg |-> 240 + 10 * i, min |-> 180 + 10 * i, max |-> 330 + 10 * i],
     humidity |-> [avg |-> 700],
     wind_speed |-> [avg |-> 120],
     precipitation |-> [avg |-> 800 + 100 * i],
     extreme_weather_risk |->
        [very_hot |-> 150, very_cold |-> 20, very_windy |-> 100, very_wet |-> 1200,
         very_uncomfortable |-> 50 * i]]

\* continent_data[c]['continent']
ContinentTitle(c) == IF c = "asia" THEN "Asia" ELSE "Europe"

\* hemisphere_data[h]['six_month_patterns']['month_<i>']
HemispherePattern(h, i) ==
    [global_temp |-> [avg |-> 150 + 10 * i, range |-> <<50, 300>>],
     global_humidity |-> [avg |-> 650],
     global_wind |-> [avg |-> 150],
     global_precipitation |-> [avg |-> 900],
     extreme_weather_trends |->
        [very_hot |-> 100, very_cold |-> 100, very_windy |-> 50, very_wet |-> 300,
         very_uncomfortable |-> 80]]

\* math.sin(lat * pi / 180) and math.cos(lon * pi / 180) in 1/10000, at the
\* coordinates the requests use
SinE4(latQ) ==
    CASE latQ = 40 -> 1736 [] latQ = 41 -> 1779 [] latQ = 42 -> 1822
      [] latQ = -140 -> -5736 [] latQ = -360 -> -10000 [] latQ = 360 -> 10000
CosE4(lonQ) ==
    CASE lonQ = 288 -> 3090 [] lonQ = 289 -> 3049
      [] lonQ = 0 -> 10000 [] lonQ = 720 -> -10000

----------------------------------------------------------------------------
(* Source router, data_router.py *)

NoContinent == "None"

RECURSIVE FirstRegion(_, _, _)
FirstRegion(regions, latQ, lonQ) ==
    IF regions = << >> THEN NoContinent
    ELSE LET region == regions[1]
             lat_in_range == 4 * region.lat_range[1] <= latQ /\ latQ <= 4 * region.lat_range[2]
             lon_in_range == 4 * region.lon_range[1] <= lonQ /\ lonQ <= 4 * region.lon_range[2]
         IN  IF lat_in_range /\ lon_in_range THEN region.name
             ELSE FirstRegion(Tail(regions), latQ, lonQ)

\* DataRouter.get_region_from_coords
get_region_from_coords(latQ, lonQ) ==
    [continent |-> FirstRegion(coordinate_regions, latQ, lonQ),
     hemisphere |-> IF latQ >= 0 THEN "northern" ELSE "southern"]

\* climate_service.py:84-96: the first configured box holding the point, the
\* ends of each range taken in either order
RECURSIVE FirstRegionInfo(_, _, _)
FirstRegionInfo(regions, latQ, lonQ) ==
    IF regions = << >> THEN "unknown"
    ELSE LET region == regions[1]
             lat_min == 4 * Min(region.lat_range[1], region.lat_range[2])
             lat_max == 4 * Max(region.lat_range[1], region.lat_range[2])
             lon_min == 4 * Min(region.lon_range[1], region.lon_range[2])
             lon_max == 4 * Max(region.lon_range[1], region.lon_range[2])
         IN  IF lat_min <= latQ /\ latQ <= lat_max /\ lon_min <= lonQ /\ lonQ <= lon_max
             THEN region.name
             ELSE FirstRegionInfo(Tail(regions), latQ, lonQ)

\* climate_service.py:99-113: the fixed geographic heuristics, in degrees
geographic_heuristics(lat4, lon4) ==
    LET In(lo, x, hi) == 4 * lo <= x /\ x <= 4 * hi
    IN  IF In(-180, lon4, -30) /\ In(15, lat4, 85) THEN "north_america"
        ELSE IF In(-85, lon4, -30) /\ 4 * (-55) <= lat4 /\ lat4 < 4 * 15 THEN "south_america"
        ELSE IF In(-25, lon4, 45) /\ In(35, lat4, 71) THEN "europe"
        ELSE IF In(-20, lon4, 55) /\ In(-35, lat4, 37) THEN "africa"
        ELSE IF In(73, lon4, 180) /\ In(8, lat4, 55) THEN "asia"
        ELSE IF In(113, lon4, 180) /\ In(-45, lat4, -10) THEN "australia"
        ELSE IF In(-90, lat4, -60) THEN "antarctica"
        ELSE "unknown"

\* ClimatePatternService.get_region_info
get_region_info(latQ, lonQ) ==
    LET primary == FirstRegionInfo(coordinate_regions, latQ, lonQ)
    IN  [continent |-> IF primary # "unknown" THEN primary
                       ELSE geographic_heuristics(latQ, lonQ),
         hemisphere |-> IF latQ >= 0 THEN "northern" ELSE "southern"]

\* DataRouter.should_use_weather_api
should_use_weather_api(date, n) ==
    0 <= days_ahead(date, n) /\ days_ahead(date, n) <= 5

\* faulty variant: a later sample at the same distance replaces the earlier
RECURSIVE ClosestFromLast(_, _, _, _)
ClosestFromLast(list, targetSlot, closest, min_time_diff) ==
    IF list = << >> THEN closest
    ELSE LET item == list[1]
             time_diff == Abs(item.dt - targetSlot)
         IN  IF closest = << >> \/ time_diff <= min_time_diff
             THEN ClosestFromLast(Tail(list), targetSlot, <<item>>, time_diff)
             ELSE ClosestFromLast(Tail(list), targetSlot, closest, min_time_diff)

\* data_router.py:112-123: the first sample with the least |dt - target|
RECURSIVE ClosestFrom(_, _, _, _)
ClosestFrom(list, targetSlot, closest, min_time_diff) ==
    IF list = << >> THEN closest
    ELSE LET item == list[1]
             time_diff == Abs(item.dt - targetSlot)
         IN  IF closest = << >> \/ time_diff < min_time_diff
             THEN ClosestFrom(Tail(list), targetSlot, <<item>>, time_diff)
             ELSE ClosestFrom(Tail(list), targetSlot, closest, min_time_diff)

closest_forecast(list, date) == ClosestFrom(list, DayNum(date) * 2, << >>, 0)

\* DataRouter.get_weather_api_data: one upstream call; None on any exception
\* and (falling off the end) when the list is empty
get_weather_api_data(date, fc) ==
    IF ~fc.ok THEN [none |-> TRUE, calls |-> <<Call("forecast", fc)>>]
    ELSE LET c == closest_forecast(fc.list, date)
         IN  IF c = << >> THEN [none |-> TRUE, calls |-> <<Call("forecast", fc)>>]
             ELSE [none |-> FALSE, calls |-> <<Call("forecast", fc)>>,
                   record |->
                      [temperature |-> c[1].main.temperature,
                       temp_max |-> c[1].main.temp_max,
                       temp_min |-> c[1].main.temp_min,
                       humidity |-> c[1].main.humidity,
                       wind_speed |-> c[1].main.wind_speed,
                       precipitation |-> c[1].main.precipitation,
                       pressure |-> c[1].main.pressure,
                       data_source |-> "OpenWeatherMap Forecast",
                       forecast_time |-> c[1].dt]]

\* int(n / den): truncation toward zero; den > 0
TruncDiv(n, den) == IF n >= 0 THEN n \div den ELSE -((-n) \div den)

VScale == 1000 * 1000

\* variation = sin(lat)*k + cos(lon)*k in 1/VScale, k in hundredths
Variation(latQ, lonQ, k) == k * (SinE4(latQ) + CosE4(lonQ))

RiskMap(base, v, slope) ==
    [c \in DOMAIN base |->
        Max(0, Min(PScale \div 10, base[c] * (PScale \div 10000) + (slope * v) \div 10))]

\* DataRouter._format_prediction_from_pattern
format_prediction_from_pattern(pattern, latQ, lonQ, source) ==
    LET v == Variation(latQ, lonQ, 10)
    IN  [temperature |-> RoundHalfEven(pattern.temperature.avg * VScale + 50 * v, VScale),
         temp_min |-> RoundHalfEven(pattern.temperature.min * VScale + 30 * v, VScale),
         temp_max |-> RoundHalfEven(pattern.temperature.max * VScale + 70 * v, VScale),
         humidity |-> 10 * Max(10, Min(95, TruncDiv(pattern.humidity.avg * VScale + 100 * v, 10 * VScale))),
         wind_speed |-> Max(10, RoundHalfEven(pattern.wind_speed.avg * VScale + 50 * v, VScale)),
         precipitation |-> 1000 * Max(0, TruncDiv(pattern.precipitation.avg * VScale + 200 * v, 10 * VScale)),
         pressure |-> 1013,
         clouds |-> Max(0, Min(100, TruncDiv(60 * VScale + 20 * v, VScale))),
         extreme_weather_risk |-> RiskMap(pattern.extreme_weather_risk, v, 6),
         data_source |-> source,
         confidence |-> RoundHalfEven(75 * VScale + 15 * Abs(v), VScale)]

\* DataRouter._format_prediction_from_hemisphere
format_prediction_from_hemisphere(pattern, latQ, lonQ, hemisphere) ==
    LET v == Variation(latQ, lonQ, 15)
    IN  [temperature |-> RoundHalfEven(pattern.global_temp.avg * VScale + 80 * v, VScale),
         temp_min |-> RoundHalfEven(pattern.global_temp.range[1] * VScale + 50 * v, VScale),
         temp_max |-> RoundHalfEven(pattern.global_temp.range[2] * VScale + 100 * v, VScale),
         humidity |-> 10 * Max(10, Min(95, TruncDiv(pattern.global_humidity.avg * VScale + 120 * v, 10 * VScale))),
         wind_speed |-> Max(10, RoundHalfEven(pattern.global_wind.avg * VScale + 80 * v, VScale)),
         precipitation |-> 1000 * Max(0, TruncDiv(pattern.global_precipitation.avg * VScale + 300 * v, 10 * VScale)),
         pressure |-> 1013,
         clouds |-> Max(0, Min(100, TruncDiv(50 * VScale + 25 * v, VScale))),
         extreme_weather_risk |-> RiskMap(pattern.extreme_weather_trends, v, 9),
         data_source |-> IF hemisphere = "northern" THEN "Northern Hemisphere Pattern"
                         ELSE "Southern Hemisphere Pattern",
         confidence |-> RoundHalfEven(65 * VScale + 20 * Abs(v), VScale)]

\* DataRouter._get_default_prediction
get_default_prediction ==
    [temperature |-> 200, temp_min |-> 150, temp_max |-> 250, humidity |-> 600,
     wind_speed |-> 150, precipitation |-> 50000, pressure |-> 1013, clouds |-> 50,
     extreme_weather_risk |->
        [very_hot |-> 15 * (PScale \div 1000), very_cold |-> 10 * (PScale \div 1000),
         very_windy |-> 10 * (PScale \div 1000), very_wet |-> 20 * (PScale \div 1000),
         very_uncomfortable |-> 12 * (PScale \div 1000)],
     data_source |-> "Global Climate Model",
     confidence |-> 50]

\* faulty variant: the remainder takes the sign of months_ahead
pattern_index_truncated(date, n) ==
    LET months_ahead == (date.y - n.y) * 12 + date.m - n.m
    IN  (months_ahead - 6 * TruncDiv(months_ahead, 6)) + 1

\* data_router.py:160-161
pattern_index(date, n) == (((date.y - n.y) * 12 + date.m - n.m) % 6) + 1

\* DataRouter.get_local_data_prediction: no upstream call
get_local_data_prediction(t, latQ, lonQ, date, n) ==
    LET region == get_region_from_coords(latQ, lonQ)
        i == pattern_index(date, n)
    IN  IF region.continent # NoContinent /\ region.continent \in t.continent_data
        THEN format_prediction_from_pattern(ContinentPattern(region.continent, i), latQ, lonQ,
                 ContinentTitle(region.continent) \o " Climate Pattern")
        ELSE IF region.hemisphere \in t.hemisphere_data
        THEN format_prediction_from_hemisphere(HemispherePattern(region.hemisphere, i),
                 latQ, lonQ, region.hemisphere)
        ELSE get_default_prediction

\* faulty variant: when the forecast is unavailable the current-conditions provider
\* is asked before the local patterns are used
get_prediction_data_second_provider(t, latQ, lonQ, date, n, fc) ==
    LET w == get_weather_api_data(date, fc)
    IN  IF should_use_weather_api(date, n) /\ ~w.none
        THEN [calls |-> w.calls, record |-> w.record]
        ELSE [calls |-> w.calls \o <<Call("current", Failure)>>,
              record |-> get_local_data_prediction(t, latQ, lonQ, date, n)]

\* DataRouter.get_prediction_data
get_prediction_data(t, latQ, lonQ, date, n, fc) ==
    IF should_use_weather_api(date, n)
    THEN LET w == get_weather_api_data(date, fc)
         IN  IF ~w.none THEN [calls |-> w.calls, record |-> w.record]
             ELSE [calls |-> w.calls,
                   record |-> get_local_data_prediction(t, latQ, lonQ, date, n)]
    ELSE [calls |-> << >>, record |-> get_local_data_prediction(t, latQ, lonQ, date, n)]

----------------------------------------------------------------------------
(* Model adapter and blender, lstm_model_loader.py *)

\* sin(2 * pi * p / q) in 1/10000 for 0 <= p (Bhaskara's rational form of the
\* sine on each half turn)
SinTurnE4(p, q) ==
    LET r == (2 * p) % (2 * q)
        a == IF r <= q THEN r ELSE r - q
        t == IF q < 1000 THEN (a * (q - a) * 1000) \div (q * q)
             ELSE (a * (q - a)) \div ((q * q) \div 1000)
        v == (160000 * t) \div (5000 - 4 * t)
    IN  IF r <= q THEN v ELSE -v

\* cos(x) = sin(x + a quarter turn)
CosTurnE4(p, q) == SinTurnE4(4 * p + q, 4 * q)

\* float values that are not finite: log1p of a value below -1 and of -1
NaN == -(2^30)
NegInf == -(2^30) - 1

\* ln(num / den) in thousandths for num, den > 0: halve or double into
\* [1, 2), then ln(m) = 2 * atanh((m - 1) / (m + 1)) by its series
RECURSIVE LnRatio(_, _)
LnRatio(num, den) ==
    IF num >= 2 * den THEN 693 + LnRatio(num, 2 * den)
    ELSE IF num < den THEN LnRatio(2 * num, den) - 693
    ELSE LET z == (1000 * (num - den)) \div (num + den)
             z3 == (z * z * z) \div 1000000
         IN  2 * z + (2 * z3) \div 3 + (2 * z3 * z * z) \div 5000000

\* np.log1p of a precipitation in thousandths of mm, in thousandths; below
\* -1 numpy warns and answers nan, at -1 it answers -inf (neither raises)
log1p(pr) ==
    IF 1000 + pr < 0 THEN NaN
    ELSE IF 1000 + pr = 0 THEN NegInf
    ELSE LnRatio(1000 + pr, 1000)

\* lstm_model_loader.py:106-116: every field is read with its default
feature_mapping(weather_data) ==
    [T2M_scaled |-> DictGet(weather_data, "temperature", 200),
     T2M_MAX_scaled |-> DictGet(weather_data, "temp_max", 250),
     T2M_MIN_scaled |-> DictGet(weather_data, "temp_min", 150),
     PRECTOTCORR_log |-> log1p(DictGet(weather_data, "precipitation", 1000)),
     ALLSKY_SFC_SW_DWN_scaled |-> DictGet(weather_data, "radiation", 2000),
     RH2M_scaled |-> DictGet(weather_data, "humidity", 600),
     QV2M_scaled |-> DictGet(weather_data, "specific_humidity", 100),
     T2M_range_scaled |-> DictGet(weather_data, "temp_max", 250)
                              - DictGet(weather_data, "temp_min", 150),
     precip_log_scaled |-> log1p(DictGet(weather_data, "precipitation", 1000))]

\* lstm_model_loader.py:118-131: the temporal and location features, then
\* features.update(feature_mapping); a record without a date is dated today
adapter_features(weather_data, n) ==
    LET date == DictGet(weather_data, "date", DateOfNow(n))
    IN  feature_mapping(weather_data) @@
        [month_sin_scaled |-> SinTurnE4(date.m, 12),
         month_cos_scaled |-> CosTurnE4(date.m, 12),
         season_encoded |-> ((date.m % 12) + 3) \div 3,
         latitude_scaled |-> DictGet(weather_data, "latitude", 0),
         longitude_scaled |-> DictGet(weather_data, "longitude", 0)]

\* faulty variant: a declared name that is not computed gets no entry
prepare_features_skipping(loader, feature_names, weather_data, n) ==
    IF loader # "loaded" THEN [raised |-> TRUE]
    ELSE LET features == adapter_features(weather_data, n)
             declared == SelectSeq(feature_names, LAMBDA name : name \in DOMAIN features)
         IN  [raised |-> FALSE,
              array |-> [i \in 1 .. Len(declared) |-> features[declared[i]]]]

\* LSTMModelLoader.prepare_features; feature_names is the list
\* all_features_transformed of the model configuration ([] when absent)
prepare_features(loader, feature_names, weather_data, n) ==
    IF loader # "loaded" THEN [raised |-> TRUE]
    ELSE LET features == adapter_features(weather_data, n)
         IN  [raised |-> FALSE,
              array |-> [i \in 1 .. Len(feature_names) |->
                            IF feature_names[i] \in DOMAIN features
                            THEN features[feature_names[i]]
                            ELSE 0]]

\* LSTMModelLoader.predict: raises when the model is not loaded or inference
\* fails; otherwise the two anomalies and the record's own temperature and
\* precipitation as they are at the time of the call
lstm_predict(loader, weather_data, model) ==
    IF loader # "loaded" \/ ~model.ok THEN [raised |-> TRUE]
    ELSE [raised |-> FALSE,
          temperature_anomaly |-> model.temperature_anomaly,
          precipitation_anomaly |-> model.precipitation_anomaly,
          base_temperature |-> DictGet(weather_data, "temperature", 200),
          base_precipitation |-> DictGet(weather_data, "precipitation", 0)]

Clamp01(prob) == Min(PScale, Max(0, prob))

\* LSTMModelLoader._calculate_hot_probability
calculate_hot_probability(temp, anomaly) ==
    LET base == IF temp > 350 THEN Min(PScale, (temp - 350) * (PScale \div 150)) ELSE 0
        extra == IF anomaly > 30 THEN Min(3 * (PScale \div 10), anomaly * (PScale \div 100)) ELSE 0
    IN  Clamp01(base + extra)

\* LSTMModelLoader._calculate_cold_probability
calculate_cold_probability(temp, anomaly) ==
    LET base == IF temp < 50 THEN Min(PScale, (50 - temp) * (PScale \div 150)) ELSE 0
        extra == IF anomaly < -30 THEN Min(3 * (PScale \div 10), Abs(anomaly) * (PScale \div 100)) ELSE 0
    IN  Clamp01(base + extra)

\* faulty variant: the wind score is not capped at 1
calculate_windy_probability_uncapped(wind_speed) ==
    IF wind_speed > 200 THEN (wind_speed - 200) * (PScale \div 300) ELSE 0

\* LSTMModelLoader._calculate_windy_probability
calculate_windy_probability(wind_speed) ==
    IF wind_speed > 200 THEN Min(PScale, (wind_speed - 200) * (PScale \div 300)) ELSE 0

\* faulty variant: no 50 mm threshold
calculate_wet_probability_no_threshold(precip, anomaly) ==
    LET base == Min(PScale, Max(0, precip * (PScale \div 200000)))
        extra == IF anomaly > 50 THEN Min(4 * (PScale \div 10), anomaly * (PScale \div 200)) ELSE 0
    IN  Min(PScale, Max(0, base + extra))

\* LSTMModelLoader._calculate_wet_probability
calculate_wet_probability(precip, anomaly) ==
    LET base == IF precip > 50000 THEN Min(PScale, precip * (PScale \div 200000)) ELSE 0
        extra == IF anomaly > 50 THEN Min(4 * (PScale \div 10), anomaly * (PScale \div 200)) ELSE 0
    IN  Clamp01(base + extra)

\* temp + 0.5 * (temp + 61.0 + (temp - 68.0) * 1.2 + humidity * 0.094), in 1/10000
heat_index(temp, humidity) == 2100 * temp - 103000 + 47 * humidity

\* LSTMModelLoader._calculate_discomfort_probability
calculate_discomfort_probability(hi, temp, humidity) ==
    LET base == IF hi > 400000 THEN Min(PScale, (hi - 400000) * (PScale \div 200000)) ELSE 0
        extra == IF temp > 300 /\ humidity > 700 THEN 3 * (PScale \div 10) ELSE 0
    IN  Clamp01(base + extra)

\* lstm_model_loader.py:202: base_temp + temp_anomaly * 10
adjusted_temp(lstm_out) == lstm_out.base_temperature + lstm_out.temperature_anomaly

\* lstm_model_loader.py:203 and api.py:967: base_precip * (1 + precip_anomaly)
adjusted_precip(lstm_out) ==
    (lstm_out.base_precipitation * (100 + lstm_out.precipitation_anomaly)) \div 100

\* LSTMModelLoader.convert_to_extreme_weather_predictions
convert_to_extreme_weather_predictions(lstm_out, weather_data) ==
    LET temp == adjusted_temp(lstm_out)
        precip == adjusted_precip(lstm_out)
        wind_speed == DictGet(weather_data, "wind_speed", 100)
        humidity == DictGet(weather_data, "humidity", 600)
    IN  [very_hot |-> calculate_hot_probability(temp, lstm_out.temperature_anomaly),
         very_cold |-> calculate_cold_probability(temp, lstm_out.temperature_anomaly),
         very_windy |-> calculate_windy_probability(wind_speed),
         very_wet |-> calculate_wet_probability(precip, lstm_out.precipitation_anomaly),
         very_uncomfortable |->
            calculate_discomfort_probability(heat_index(temp, humidity), temp, humidity)]

----------------------------------------------------------------------------
(* Heuristics and risk level, api.py *)

\* faulty variant: the heuristic scores are capped at 1 like the model's
generate_predictions_from_weather_uncapped(weather_data) ==
    LET temp == DictGet(weather_data, "temperature", 200)
        humidity == DictGet(weather_data, "humidity", 600)
        wind_speed == DictGet(weather_data, "wind_speed", 100)
        precipitation == DictGet(weather_data, "precipitation", 0)
        hi == heat_index(temp, humidity)
    IN  [very_hot |-> Max(0, Min(PScale, (temp - 350) * (PScale \div 500))),
         very_cold |-> Max(0, Min(PScale, (50 - temp) * (PScale \div 500))),
         very_windy |-> Max(0, Min(PScale, (wind_speed - 200) * (PScale \div 1000))),
         very_wet |-> Max(0, Min(PScale, precipitation * (PScale \div 500000))),
         very_uncomfortable |-> Max(0, Min(PScale, Abs(hi - 250000) * (PScale \div 2000000)))]

\* _generate_predictions_from_weather
generate_predictions_from_weather(weather_data) ==
    LET temp == DictGet(weather_data, "temperature", 200)
        humidity == DictGet(weather_data, "humidity", 600)
        wind_speed == DictGet(weather_data, "wind_speed", 100)
        precipitation == DictGet(weather_data, "precipitation", 0)
        hi == heat_index(temp, humidity)
        cap == PScale \div 10
    IN  [very_hot |-> Max(0, Min(cap, (temp - 350) * (PScale \div 500))),
         very_cold |-> Max(0, Min(cap, (50 - temp) * (PScale \div 500))),
         very_windy |-> Max(0, Min(cap, (wind_speed - 200) * (PScale \div 1000))),
         very_wet |-> Max(0, Min(cap, precipitation * (PScale \div 500000))),
         very_uncomfortable |-> Max(0, Min(cap, Abs(hi - 250000) * (PScale \div 2000000)))]

MaxValue(predictions) ==
    CHOOSE v \in {predictions[k] : k \in DOMAIN predictions} :
        \A k \in DOMAIN predictions : predictions[k] <= v

\* faulty variant: open lower bounds
assess_risk_level_open(predictions) ==
    LET max_prob == MaxValue(predictions)
    IN  IF max_prob > 8 * (PScale \div 10) THEN "EXTREME"
        ELSE IF max_prob > 6 * (PScale \div 10) THEN "HIGH"
        ELSE IF max_prob > 4 * (PScale \div 10) THEN "MODERATE"
        ELSE IF max_prob > 2 * (PScale \div 10) THEN "LOW"
        ELSE "MINIMAL"

\* assess_risk_level
assess_risk_level(predictions) ==
    LET max_prob == MaxValue(predictions)
    IN  IF max_prob >= 8 * (PScale \div 10) THEN "EXTREME"
        ELSE IF max_prob >= 6 * (PScale \div 10) THEN "HIGH"
        ELSE IF max_prob >= 4 * (PScale \div 10) THEN "MODERATE"
        ELSE IF max_prob >= 2 * (PScale \div 10) THEN "LOW"
        ELSE "MINIMAL"

\* faulty variant: the record's own risk map is ignored
heuristic_fallback_raw_fields(weather_data) ==
    [predictions |-> generate_predictions_from_weather(weather_data),
     data_source |-> "Heuristic Model",
     weather_data |-> weather_data, used |-> "heuristic"]

\* api.py:978-983 and 986-991
heuristic_fallback(weather_data) ==
    IF "extreme_weather_risk" \in DOMAIN weather_data
    THEN [predictions |-> weather_data.extreme_weather_risk,
          data_source |-> DictGet(weather_data, "data_source", "Local Climate Data"),
          weather_data |-> weather_data, used |-> "heuristic"]
    ELSE [predictions |-> generate_predictions_from_weather(weather_data),
          data_source |-> "Heuristic Model",
          weather_data |-> weather_data, used |-> "heuristic"]

\* api.py:945-991: the record gets the request's fields, then the model (when
\* loaded and not raising) or the heuristics score it.  weather_data is
\* updated in place: the result carries the dict as the handler leaves it.
blend(loader, record, request, model) ==
    LET wd0 == DictSet(DictSet(DictSet(record, "latitude", request.latitude),
                               "longitude", request.longitude), "date", request.date)
        out == lstm_predict(loader, wd0, model)
    IN  IF loader = "loaded" /\ ~out.raised
        THEN LET wd1 == DictSet(wd0, "precipitation", adjusted_precip(out))
             IN  [predictions |-> convert_to_extreme_weather_predictions(out, wd1),
                  data_source |-> "LSTM + NASA Hybrid Model",
                  weather_data |-> wd1, used |-> "model", lstm_output |-> out]
        ELSE heuristic_fallback(wd0) @@ [lstm_output |-> out]

\* api.py:997-1015
response(request, b) ==
    [status |-> 200,
     location |-> [latitude |-> request.latitude, longitude |-> request.longitude],
     date |-> request.date,
     predictions |-> b.predictions,
     risk_level |-> assess_risk_level(b.predictions),
     data_source |-> b.data_source,
     used |-> b.used,
     weather |-> [k \in {"temperature", "temp_max", "temp_min", "humidity",
                         "wind_speed", "precipitation"} |-> b.weather_data[k]]]

\* raise HTTPException(status_code = code)
http_error(code) == [status |-> code]

----------------------------------------------------------------------------
(* Feature builder, api.py: EnhancedFeatureBuilder.  A frame is a sequence  *)
(* of daily rows in date order, one row per day, each with its day number   *)
(* (date) and the weather columns in tenths of their units; a feature       *)
(* mapping is a dict from feature names to integers in the same units,      *)
(* quotients rounded toward minus infinity.                                 *)

\* config['features']['lag_days'] and ['rolling_window_days']
lag_days == <<1, 3, 7>>
rolling_window_days == <<3, 7>>

weather_columns ==
    {"T2M", "T2M_MAX", "T2M_MIN", "PRECTOTCORR", "WS2M", "RH2M", "PS", "CLOUD_AMT"}

Range(seq) == {seq[i] : i \in 1 .. Len(seq)}

\* {Name(x): Val(x) for x in S}, Name one-to-one on S
DictOf(S, Name(_), Val(_)) ==
    [k \in {Name(x) : x \in S} |-> Val(CHOOSE x \in S : Name(x) = k)]

\* df[df['date'] == day]
RowsOn(df, day) == SelectSeq(df, LAMBDA r : r.date = day)

\* the weather columns the frame has
ColumnsOf(df) == IF df = << >> THEN {} ELSE weather_columns \cap DOMAIN df[1]

\* pandas dayofyear and dayofweek (Monday = 0); 2026-01-01 is a Thursday
DayOfYear(date) == DaysBeforeMonth(date.y, date.m) + date.d
DayOfWeek(date) == (DayNum(date) + 3) % 7

\* EnhancedFeatureBuilder.create_temporal_features
create_temporal_features(date) ==
    [day_of_year |-> DayOfYear(date),
     month |-> date.m,
     day_of_week |-> DayOfWeek(date),
     is_weekend |-> IF DayOfWeek(date) >= 5 THEN 1 ELSE 0,
     year |-> date.y,
     season |-> ((date.m % 12) + 3) \div 3,
     day_of_year_sin |-> SinTurnE4(4 * DayOfYear(date), 1461),
     day_of_year_cos |-> CosTurnE4(4 * DayOfYear(date), 1461),
     month_sin |-> SinTurnE4(date.m, 12),
     month_cos |-> CosTurnE4(date.m, 12)]

\* api.py:469-474: the target day's own values, when the frame has the row
current_day_features(df, target) ==
    LET target_row == RowsOn(df, target)
    IN  IF target_row = << >> THEN EmptyDict
        ELSE [col \in ColumnsOf(df) |-> target_row[1][col]]

LagName(x) == x[1] \o "_lag_" \o ToString(x[2])

\* EnhancedFeatureBuilder.create_lag_features: `.iloc[-1]` of the target
\* day's rows raises IndexError when there is none
create_lag_features(df, target) ==
    IF RowsOn(df, target) = << >> THEN [raised |-> TRUE, error |-> "IndexError"]
    ELSE [raised |-> FALSE,
          features |->
             DictOf(ColumnsOf(df) \X Range(lag_days), LagName,
                    LAMBDA x : LET lag_row == RowsOn(df, target - x[2])
                               IN  IF Len(lag_row) > 0 THEN lag_row[1][x[1]] ELSE 0)]

RECURSIVE SeqSum(_)
SeqSum(seq) == IF seq = << >> THEN 0 ELSE seq[1] + SeqSum(Tail(seq))

SeqMax(seq) == CHOOSE v \in Range(seq) : \A w \in Range(seq) : w <= v
SeqMin(seq) == CHOOSE v \in Range(seq) : \A w \in Range(seq) : v <= w

\* the integer part of the square root
RECURSIVE SqrtBetween(_, _, _)
SqrtBetween(n, lo, hi) ==
    IF lo >= hi THEN lo
    ELSE LET mid == (lo + hi + 1) \div 2
         IN  IF mid * mid <= n THEN SqrtBetween(n, mid, hi) ELSE SqrtBetween(n, lo, mid - 1)

\* Series.std(): the sample standard deviation (ddof = 1), len > 1
SampleStd(seq) ==
    LET n == Len(seq)
        total == SeqSum(seq)
        sq == SeqSum([i \in 1 .. n |-> (n * seq[i] - total) * (n * seq[i] - total)])
        variance == sq \div (n * n * (n - 1))
    IN  SqrtBetween(variance, 0, 40000)

\* faulty variant: the window ends with the target day
window_data_closed(df, target, window, col) ==
    LET rows == SelectSeq(df, LAMBDA r : r.date >= target - window /\ r.date <= target)
    IN  [i \in 1 .. Len(rows) |-> rows[i][col]]

\* df[(df['date'] >= window_start) & (df['date'] < window_end)][col]
window_data(df, target, window, col) ==
    LET rows == SelectSeq(df, LAMBDA r : r.date >= target - window /\ r.date < target)
    IN  [i \in 1 .. Len(rows) |-> rows[i][col]]

RollingName(x) == x[1] \o "_rolling_" \o x[3] \o "_" \o ToString(x[2])

\* EnhancedFeatureBuilder.create_rolling_features
create_rolling_features(df, target) ==
    DictOf(ColumnsOf(df) \X Range(rolling_window_days) \X {"mean", "std", "max", "min"},
           RollingName,
           LAMBDA x :
               LET w == window_data(df, target, x[2], x[1])
               IN  IF Len(w) = 0 THEN 0
                   ELSE CASE x[3] = "mean" -> SeqSum(w) \div Len(w)
                          [] x[3] = "std" -> (IF Len(w) > 1 THEN SampleStd(w) ELSE 0)
                          [] x[3] = "max" -> SeqMax(w)
                          [] x[3] = "min" -> SeqMin(w))

TrendName(x) == x[1] \o "_" \o x[2]

\* EnhancedFeatureBuilder.create_trend_features; pct_change in 1/1000
create_trend_features(df, target) ==
    LET target_row == RowsOn(df, target)
    IN  IF Len(target_row) = 0 THEN EmptyDict
        ELSE DictOf(ColumnsOf(df) \X {"change_1d", "pct_change_1d", "change_7d"}, TrendName,
                 LAMBDA x :
                     LET prev_1d == RowsOn(df, target - 1)
                         prev_7d == RowsOn(df, target - 7)
                         cur == target_row[1][x[1]]
                     IN  CASE x[2] = "change_1d" ->
                                (IF Len(prev_1d) > 0 THEN cur - prev_1d[1][x[1]] ELSE 0)
                           [] x[2] = "pct_change_1d" ->
                                (IF Len(prev_1d) > 0 /\ prev_1d[1][x[1]] # 0
                                 THEN ((cur - prev_1d[1][x[1]]) * 1000) \div prev_1d[1][x[1]]
                                 ELSE 0)
                           [] x[2] = "change_7d" ->
                                (IF Len(prev_7d) > 0 THEN cur - prev_7d[1][x[1]] ELSE 0))

\* EnhancedFeatureBuilder.create_interaction_features
create_interaction_features(df, target) ==
    LET rows == RowsOn(df, target)
        target_row == rows[1]
        Has(a, b) == a \in DOMAIN target_row /\ b \in DOMAIN target_row
    IN  IF Len(rows) = 0 THEN EmptyDict
        ELSE (IF Has("T2M", "RH2M")
              THEN [temp_humidity_interaction |-> target_row.T2M * target_row.RH2M,
                    heat_index |-> heat_index(target_row.T2M, target_row.RH2M)]
              ELSE EmptyDict)
             @@ (IF Has("WS2M", "PRECTOTCORR")
                 THEN [wind_precip_interaction |-> target_row.WS2M * target_row.PRECTOTCORR]
                 ELSE EmptyDict)
             @@ (IF Has("T2M_MAX", "T2M_MIN")
                 THEN [temp_range |-> target_row.T2M_MAX - target_row.T2M_MIN]
                 ELSE EmptyDict)

\* EnhancedFeatureBuilder.build_complete_features: later updates win
build_complete_features(date, hist) ==
    LET f == fetch_historical_data(hist)
        target == DayNum(date)
        lag == create_lag_features(f.df, target)
    IN  IF f.raised THEN [raised |-> TRUE, error |-> "HTTPException", calls |-> f.calls]
        ELSE IF lag.raised THEN [raised |-> TRUE, error |-> lag.error, calls |-> f.calls]
        ELSE [raised |-> FALSE, calls |-> f.calls,
              features |-> create_interaction_features(f.df, target)
                           @@ create_trend_features(f.df, target)
                           @@ create_rolling_features(f.df, target)
                           @@ lag.features
                           @@ current_day_features(f.df, target)
                           @@ create_temporal_features(date)]

----------------------------------------------------------------------------
(* Requests *)

\* latitude 10.0, 10.25 (both round to the cell 10.0) and 10.5; longitude 72
Requests ==
    {[latitude |-> 40, longitude |-> 288, date |-> d] :
        d \in {Date(2026, 11, 4), Date(2026, 11, 5), Date(2026, 11, 6),
               Date(2026, 11, 11), Date(2027, 3, 5)}}
    \cup {[latitude |-> 41, longitude |-> 288, date |-> d] :
        d \in {Date(2026, 11, 10), Date(2027, 3, 10)}}
    \cup {[latitude |-> 42, longitude |-> 288, date |-> Date(2027, 3, 5)]}

\* what start-up can leave behind
Configs ==
    { [lstm_loader |-> "loaded", data_router |-> "ready", tables |-> TablesAll],
      [lstm_loader |-> "unloaded", data_router |-> "ready", tables |-> TablesNoContinent],
      [lstm_loader |-> "unloaded", data_router |-> "ready", tables |-> TablesNone],
      [lstm_loader |-> "unloaded", data_router |-> "none", tables |-> TablesNone],
      [lstm_loader |-> "none", data_router |-> "ready", tables |-> TablesAll] }

\* the model is only called when it is loaded (api.py:951)
ModelOutcomesFor(c) == IF c.lstm_loader = "loaded" THEN ModelOutcomes ELSE {Failure}

----------------------------------------------------------------------------
(* The state machine *)

Init ==
    /\ now = [y |-> 2026, m |-> 11, d |-> 5, tod |-> 0]
    /\ ticks = 0
    /\ config \in Configs
    /\ cache = EmptyDict
    /\ inserted = EmptyDict
    /\ nreq = 0
    /\ pc = "idle"
    /\ obs = EmptyDict

\* the clock moves on by half a day
Tick ==
    /\ pc = "idle"
    /\ ticks < MaxTicks
    /\ ticks' = ticks + 1
    /\ now' = IF now.tod = 0 THEN [now EXCEPT !.tod = 1]
              ELSE NextDay(DateOfNow(now)) @@ [tod |-> 0]
    /\ UNCHANGED <<config, cache, inserted, nreq, pc, obs>>

\* faulty variant: the cache keeps the newest entry only
cache_keeps_one_entry(c, r, weather_data) ==
    IF r.aliased THEN DictSet(EmptyDict, r.key, weather_data) ELSE c

\* api.py:800-802, 846-848, 946-948, 968: the cache after a request that took
\* the baseline path.  The handler's weather_data is the cached dict itself,
\* so what predict writes into weather_data is written into the cache entry.
cache_after_request(c, r, weather_data) ==
    IF r.aliased THEN DictSet(c, r.key, weather_data) ELSE c

Observation(request, p, r, lookup, model, lstm_out, rsp) ==
    [req |-> request, path |-> p, calls |-> r.calls, hit |-> r.hit, lookup |-> lookup,
     model |-> model, lstm_output |-> lstm_out, resp |-> rsp]

\* the rest of predict once the router has answered r (api.py:943-1021); b is
\* the blend of r.record
Finish(request, p, r, model, b) ==
    /\ nreq' = nreq + 1
    /\ pc' = "done"
    /\ obs' = IF r.raised
              THEN Observation(request, p, r, EmptyDict, EmptyDict, EmptyDict, http_error(500))
              ELSE Observation(request, p, r, r.record,
                               IF config.lstm_loader = "loaded" THEN model ELSE EmptyDict,
                               b.lstm_output, response(request, b))
    /\ UNCHANGED <<now, ticks, config>>

\* api.py:910-911
PredictNoLoader(request) ==
    /\ pc = "idle" /\ nreq < MaxRequests
    /\ config.lstm_loader = "none"
    /\ nreq' = nreq + 1
    /\ pc' = "done"
    /\ obs' = Observation(request, "none", [calls |-> << >>, hit |-> FALSE],
                          EmptyDict, EmptyDict, EmptyDict, http_error(503))
    /\ UNCHANGED <<now, ticks, config, cache, inserted>>

\* api.py:924-926: days_ahead <= 0
PredictCurrent(request, cur, model) ==
    /\ pc = "idle" /\ nreq < MaxRequests
    /\ config.lstm_loader # "none"
    /\ days_ahead(request.date, now) <= 0
    /\ LET r == get_current_weather_data(cur) @@ [hit |-> FALSE]
       IN  Finish(request, "current", r, model,
                  blend(config.lstm_loader, r.record, request, model))
    /\ UNCHANGED <<cache, inserted>>

\* api.py:928-933: 1 <= days_ahead <= 5 with a data router
PredictShort(request, fc, model) ==
    /\ pc = "idle" /\ nreq < MaxRequests
    /\ config.lstm_loader # "none"
    /\ 1 <= days_ahead(request.date, now) /\ days_ahead(request.date, now) <= 5
    /\ config.data_router # "none"
    /\ LET r == get_prediction_data(config.tables, request.latitude, request.longitude,
                                    request.date, now, fc)
                @@ [raised |-> FALSE, hit |-> FALSE]
       IN  Finish(request, "short", r, model,
                  blend(config.lstm_loader, r.record, request, model))
    /\ UNCHANGED <<cache, inserted>>

\* api.py:935-937: 1 <= days_ahead <= 5 without a data router
PredictShortNoRouter(request, cur, model) ==
    /\ pc = "idle" /\ nreq < MaxRequests
    /\ config.lstm_loader # "none"
    /\ 1 <= days_ahead(request.date, now) /\ days_ahead(request.date, now) <= 5
    /\ config.data_router = "none"
    /\ LET r == get_current_weather_data(cur) @@ [hit |-> FALSE]
       IN  Finish(request, "norouter", r, model,
                  blend(config.lstm_loader, r.record, request, model))
    /\ UNCHANGED <<cache, inserted>>

\* api.py:939-941: days_ahead > 5
PredictLong(request, hist, cur, model) ==
    /\ pc = "idle" /\ nreq < MaxRequests
    /\ config.lstm_loader # "none"
    /\ days_ahead(request.date, now) > 5
    /\ LET r == get_historical_baseline_from_api(cache, request.latitude,
                    request.longitude, request.date, hist, cur)
           b == blend(config.lstm_loader, r.record, request, model)
       IN  /\ Finish(request, "long", r, model, b)
           /\ inserted' = IF r.aliased /\ ~r.hit
                          THEN DictSet(inserted, r.key, r.record) ELSE inserted
           /\ cache' = IF r.raised THEN cache
                       ELSE cache_after_request(cache, r, b.weather_data)

\* the response has gone out; the handler's locals are gone
Return ==
    /\ pc = "done"
    /\ pc' = "idle"
    /\ obs' = EmptyDict
    /\ UNCHANGED <<now, ticks, config, cache, inserted, nreq>>

Next ==
    \/ Tick
    \/ Return
    \/ \E request \in Requests : PredictNoLoader(request)
    \/ \E request \in Requests, cur \in CurrentOutcomes, model \in ModelOutcomesFor(config) :
          PredictCurrent(request, cur, model)
    \/ \E request \in Requests, fc \in ForecastOutcomes(now), model \in ModelOutcomesFor(config) :
          PredictShort(request, fc, model)
    \/ \E request \in Requests, cur \in CurrentOutcomes, model \in ModelOutcomesFor(config) :
          PredictShortNoRouter(request, cur, model)
    \/ \E request \in Requests, hist \in HistoricalOutcomes, cur \in CurrentOutcomes,
          model \in ModelOutcomesFor(config) :
          PredictLong(request, hist, cur, model)

Spec == Init /\ [][Next]_vars

----------------------------------------------------------------------------
(* The feature pipeline on its own: build_complete_features for a target    *)
(* date over what the historical provider may return.                       *)

\* a Tuesday and a Saturday
FeatureTargets == {Date(2026, 3, 10), Date(2026, 3, 14)}

\* a daily row of the frame, precipitation in tenths of mm like the rest
FeatureRow(day, o) ==
    [NasaRow(o) EXCEPT !.PRECTOTCORR = @ \div 100] @@ [date |-> day]

\* the days, counted back from the target, that a frame may hold, with the
\* observation of each
FrameOffsets == <<7, 3, 1, 0>>
ObsAt(offset) ==
    CASE offset = 7 -> Cold [] offset = 3 -> Mild [] offset = 1 -> Hot [] offset = 0 -> Mild

\* the frames: any of the days present, with or without the PS column
FeatureFrames(target) ==
    {[i \in 1 .. Len(offs) |->
         LET row == FeatureRow(target - offs[i], ObsAt(offs[i]))
         IN  IF ps THEN row ELSE [k \in (DOMAIN row) \ {"PS"} |-> row[k]]] :
       offs \in {SelectSeq(FrameOffsets, LAMBDA k : k \in S) : S \in SUBSET Range(FrameOffsets)},
       ps \in BOOLEAN}

FeatureHistories(target) ==
    {Failure} \cup {[ok |-> TRUE, df |-> f] : f \in FeatureFrames(target)}

InitFeatures ==
    /\ now = [y |-> 2026, m |-> 3, d |-> 10, tod |-> 0]
    /\ ticks = 0
    /\ config = [lstm_loader |-> "unloaded", data_router |-> "ready", tables |-> TablesAll]
    /\ cache = EmptyDict
    /\ inserted = EmptyDict
    /\ nreq = 0
    /\ pc = "idle"
    /\ obs = EmptyDict

\* one call of build_complete_features
BuildFeatures(date, hist) ==
    /\ pc = "idle" /\ nreq < MaxRequests
    /\ nreq' = nreq + 1
    /\ pc' = "built"
    /\ obs' = [req |-> [date |-> date], hist |-> hist,
               result |-> build_complete_features(date, hist)]
    /\ UNCHANGED <<now, ticks, config, cache, inserted>>

ReturnFeatures ==
    /\ pc = "built"
    /\ pc' = "idle"
    /\ obs' = EmptyDict
    /\ UNCHANGED <<now, ticks, config, cache, inserted, nreq>>

NextFeatures ==
    \/ \E date \in FeatureTargets : \E hist \in FeatureHistories(DayNum(date)) :
          BuildFeatures(date, hist)
    \/ ReturnFeatures

SpecFeatures == InitFeatures /\ [][NextFeatures]_vars

----------------------------------------------------------------------------
(* Forecast endpoint, api.py: POST /forecast/hybrid.  Temperatures,        *)
(* humidity, wind and precipitation in tenths of their units; the          *)
(* confidence in hundredths.                                               *)

\* api.py:102-107 ForecastRequest: the range checks of the request model
ValidForecastRequest(request) ==
    /\ -360 <= request.latitude /\ request.latitude <= 360
    /\ -720 <= request.longitude /\ request.longitude <= 720
    /\ 1 <= request.days_ahead /\ request.days_ahead <= 180

\* date + timedelta(days = k), k >= 0, a month at a time
RECURSIVE AddDays(_, _)
AddDays(date, k) ==
    LET left == DaysInMonth(date.y, date.m) - date.d
    IN  IF k <= left THEN [date EXCEPT !.d = @ + k]
        ELSE AddDays(IF date.m < 12 THEN Date(date.y, date.m + 1, 1)
                     ELSE Date(date.y + 1, 1, 1),
                     k - left - 1)

\* one 3-hourly sample of the forecast provider: item['dt'] as the local date
\* and the slot of the day, then the fields fetch_forecast_data reads; every
\* other sample has no 'rain' entry
ForecastSample(date, slot) ==
    LET item == [date |-> date, slot |-> slot,
                 main |-> [temp |-> 150 + 20 * slot, humidity |-> 600 + 15 * slot],
                 wind |-> [speed |-> 30 + 5 * slot],
                 weather |-> <<[description |-> IF slot < 4 THEN "clear sky" ELSE "light rain"]>>]
    IN  IF slot % 2 = 0 THEN item ELSE item @@ [rain |-> [h3 |-> 4 * slot]]

\* count consecutive 3-hourly samples from a slot of a date on
RECURSIVE ThreeHourly(_, _, _)
ThreeHourly(date, slot, count) ==
    IF count = 0 THEN << >>
    ELSE <<ForecastSample(date, slot)>>
         \o ThreeHourly(IF slot = 7 THEN NextDay(date) ELSE date, (slot + 1) % 8, count - 1)

\* samples per day and the length of the provider's whole forecast
SamplesPerDay == 8
FullForecast == 5 * SamplesPerDay

\* what the forecast provider may answer to a request for cnt samples: an
\* error, no samples, cnt samples from 15:00 today or from midnight tomorrow,
\* or its whole forecast whatever cnt was
DailyForecastOutcomes(n, cnt) ==
    {Failure,
     [ok |-> TRUE, list |-> << >>],
     [ok |-> TRUE, list |-> ThreeHourly(DateOfNow(n), 5, cnt)],
     [ok |-> TRUE, list |-> ThreeHourly(NextDay(DateOfNow(n)), 0, cnt)],
     [ok |-> TRUE, list |-> ThreeHourly(DateOfNow(n), 5, FullForecast)]}

\* sorted(...) of a set of dates
RECURSIVE SortedDates(_)
SortedDates(S) ==
    IF S = {} THEN << >>
    ELSE LET first == CHOOSE d \in S : \A e \in S : DayNum(d) <= DayNum(e)
         IN  <<first>> \o SortedDates(S \ {first})

\* how the random draws of a request fall
Noises == {"calm", "swing"}

\* np.random.uniform draws of the simulated forecast for day i: temperature
\* within +-3, humidity within +-10, precipitation in 0..15, wind in -5..10
MockNoise(kind, i) ==
    IF kind = "calm" THEN [temp |-> 0, humidity |-> 0, precipitation |-> 0, wind |-> 0]
    ELSE IF i % 2 = 0 THEN [temp |-> 30, humidity |-> -100, precipitation |-> 150, wind |-> 100]
    ELSE [temp |-> -30, humidity |-> 100, precipitation |-> 7, wind |-> -50]

SimulatedLabel == "Simulated Data (Configure API key for real data)"

\* WeatherDataFetcher._generate_mock_forecast: one entry per day from today
_generate_mock_forecast(latQ, lonQ, days, n, noise) ==
    [k \in 1 .. days |->
        LET i == k - 1
            v == MockNoise(noise, i)
            \* base_temp + temp_variation in twentieths of a degree
            temp2 == 600 - 3 * Abs(latQ) + 2 * v.temp
        IN  [date |-> AddDays(DateOfNow(n), i),
             temperature |-> [avg |-> RoundHalfEven(temp2, 2),
                              min |-> RoundHalfEven(temp2 - 100, 2),
                              max |-> RoundHalfEven(temp2 + 100, 2)],
             humidity |-> [avg |-> 600 + v.humidity],
             precipitation |-> [total |-> v.precipitation],
             wind_speed |-> [avg |-> 100 + v.wind],
             description |-> "partly cloudy",
             data_source |-> SimulatedLabel]]

\* api.py:157-199: the samples of one date folded into a daily entry
DailyEntry(date, samples) ==
    LET temps == [i \in 1 .. Len(samples) |-> samples[i].main.temp]
        humidity == [i \in 1 .. Len(samples) |-> samples[i].main.humidity]
        wind_speed == [i \in 1 .. Len(samples) |-> samples[i].wind.speed]
        rain == [i \in 1 .. Len(samples) |->
                    IF "rain" \in DOMAIN samples[i] THEN DictGet(samples[i].rain, "h3", 0) ELSE 0]
    IN  [date |-> date,
         temperature |-> [avg |-> RoundHalfEven(SeqSum(temps), Len(temps)),
                          min |-> SeqMin(temps),
                          max |-> SeqMax(temps)],
         humidity |-> [avg |-> RoundHalfEven(SeqSum(humidity), Len(humidity))],
         precipitation |-> [total |-> SeqSum(rain)],
         wind_speed |-> [avg |-> RoundHalfEven(SeqSum(wind_speed), Len(wind_speed))],
         description |-> samples[1].weather[1].description,
         data_source |-> "OpenWeatherMap API"]

\* faulty variant: every date found in the samples gets an entry
fetch_forecast_data_every_date(latQ, lonQ, days, api_key, fc, n, noise) ==
    IF ~api_key \/ ~fc.ok THEN _generate_mock_forecast(latQ, lonQ, days, n, noise)
    ELSE LET items == SubSeq(fc.list, 1, Min(Len(fc.list), days * SamplesPerDay))
             dates == SortedDates({items[i].date : i \in 1 .. Len(items)})
         IN  [i \in 1 .. Len(dates) |->
                 DailyEntry(dates[i], SelectSeq(items, LAMBDA item : item.date = dates[i]))]

\* WeatherDataFetcher.fetch_forecast_data: without a key, or when the
\* provider fails, the simulated forecast; else the first days * 8 samples
\* grouped by date and the first days dates kept
fetch_forecast_data(latQ, lonQ, days, api_key, fc, n, noise) ==
    IF ~api_key \/ ~fc.ok THEN _generate_mock_forecast(latQ, lonQ, days, n, noise)
    ELSE LET items == SubSeq(fc.list, 1, Min(Len(fc.list), days * SamplesPerDay))
             dates == SortedDates({items[i].date : i \in 1 .. Len(items)})
             kept == SubSeq(dates, 1, Min(Len(dates), days))
         IN  [i \in 1 .. Len(kept) |->
                 DailyEntry(kept[i], SelectSeq(items, LAMBDA item : item.date = kept[i]))]

\* random.uniform(-2, 2) of day `day` of a monthly chart, in hundredths of a
\* degree
ChartNoise(kind, day) ==
    IF kind = "calm" THEN 0 ELSE IF day % 2 = 0 THEN 200 ELSE -200

\* ClimatePatternService._generate_monthly_temperature_pattern: a sine over
\* the month of 0.3 of (max - avg), the day's noise, clamped to [min, max],
\* then round(temp, 1).  avg, min and max in hundredths of a degree, the
\* values of the chart in tenths.
_generate_monthly_temperature_pattern(avg_temp, min_temp, max_temp, days, noise) ==
    [k \in 1 .. days |->
        LET day == k - 1
            \* in 1/100000 of a hundredth of a degree
            sine_variation == SinTurnE4(day, days) * (max_temp - avg_temp) * 3
            temp == 100000 * avg_temp + sine_variation + 100000 * ChartNoise(noise, day)
        IN  RoundHalfEven(Max(100000 * min_temp, Min(100000 * max_temp, temp)), 1000000)]

\* calendar.month_abbr
month_abbr ==
    <<"Jan", "Feb", "Mar", "Apr", "May", "Jun", "Jul", "Aug", "Sep", "Oct", "Nov", "Dec">>

\* the number of monthly entries generate_six_month_forecast loops over
ForecastMonths == 6

\* ClimatePatternService.generate_six_month_forecast: one entry per 30 days
\* from the start date, from the continent's pattern, else the hemisphere's,
\* else the defaults
generate_six_month_forecast(t, latQ, lonQ, start_date, noise) ==
    LET region_info == get_region_info(latQ, lonQ)
        continent == region_info.continent
        hemisphere == region_info.hemisphere
    IN  [k \in 1 .. ForecastMonths |->
            LET month_offset == k - 1
                forecast_date == AddDays(start_date, 30 * month_offset)
                continent_pattern ==
                    IF continent \in t.continent_data
                    THEN ContinentPattern(continent, month_offset + 1) ELSE EmptyDict
                hemisphere_pattern ==
                    IF hemisphere \in t.hemisphere_data
                    THEN HemispherePattern(hemisphere, month_offset + 1) ELSE EmptyDict
                Part(name, avg, lo, hi) ==
                    LET g == DictGet(hemisphere_pattern, name, EmptyDict)
                        range == DictGet(g, "range", <<lo, hi>>)
                    IN  [avg |-> DictGet(g, "avg", avg), min |-> range[1], max |-> range[2]]
                values ==
                    IF continent_pattern # EmptyDict THEN
                        [temperature |-> DictGet(continent_pattern, "temperature",
                                                 [avg |-> 200, min |-> 100, max |-> 300]),
                         humidity |-> DictGet(continent_pattern, "humidity",
                                              [avg |-> 650, min |-> 400, max |-> 850]),
                         precipitation |-> DictGet(continent_pattern, "precipitation",
                                                   [avg |-> 1000, min |-> 200, max |-> 3000]),
                         wind_speed |-> DictGet(continent_pattern, "wind_speed",
                                                [avg |-> 150, min |-> 50, max |-> 350]),
                         extreme_weather_risk |->
                            DictGet(continent_pattern, "extreme_weather_risk", EmptyDict)]
                    ELSE IF hemisphere_pattern # EmptyDict THEN
                        [temperature |-> Part("global_temp", 200, 100, 300),
                         humidity |-> Part("global_humidity", 650, 400, 850),
                         precipitation |-> Part("global_precipitation", 1000, 200, 3000),
                         wind_speed |-> Part("global_wind", 150, 50, 350),
                         extreme_weather_risk |->
                            DictGet(hemisphere_pattern, "extreme_weather_trends", EmptyDict)]
                    ELSE
                        [temperature |-> [avg |-> 200, min |-> 100, max |-> 300],
                         humidity |-> [avg |-> 650, min |-> 400, max |-> 850],
                         precipitation |-> [avg |-> 1000, min |-> 200, max |-> 3000],
                         wind_speed |-> [avg |-> 150, min |-> 50, max |-> 350],
                         extreme_weather_risk |-> EmptyDict]
            IN  values @@
                [month |-> month_abbr[forecast_date.m],
                 year |-> forecast_date.y,
                 month_number |-> forecast_date.m,
                 data_source |-> <<continent, "Climate Pattern">>,
                 temperature_chart |->
                    _generate_monthly_temperature_pattern(
                        10 * values.temperature.avg, 10 * values.temperature.min,
                        10 * values.temperature.max,
                        DaysInMonth(forecast_date.y, forecast_date.m), noise),
                 confidence |-> IF continent_pattern # EmptyDict THEN 75 ELSE 60,
                 region_info |-> region_info]]

\* the pattern documents cannot be parsed: ClimatePatternService() raises
TablesCorrupt == [continent_data |-> {"corrupt"}, hemisphere_data |-> {"corrupt"}]

\* api.py:637-642: 'auto' resolved from days_ahead
resolve_forecast_type(request) ==
    IF request.forecast_type = "auto"
    THEN (IF request.days_ahead <= 5 THEN "short" ELSE "long")
    ELSE request.forecast_type

\* hybrid_forecast: the response, with the upstream calls made
hybrid_forecast(c, request, fc, n, noise) ==
    LET forecast_type == resolve_forecast_type(request)
        days == Min(request.days_ahead, 5)
        Answer(forecasts, calls) ==
            [calls |-> calls,
             resp |-> [status |-> 200,
                       location |-> [latitude |-> request.latitude,
                                     longitude |-> request.longitude],
                       forecast_type |-> forecast_type,
                       forecasts |-> forecasts,
                       metadata |->
                          [forecast_range |->
                              <<Len(forecasts), IF forecast_type = "short" THEN "days" ELSE "months">>,
                           data_source |->
                              IF forecasts # << >>
                              THEN <<DictGet(forecasts[1], "data_source", "Unknown")>>
                              ELSE <<"Unknown">>]]]
    IN  IF forecast_type = "short"
        THEN Answer(fetch_forecast_data(request.latitude, request.longitude, days,
                                        c.api_key, fc, n, noise),
                    IF c.api_key THEN <<Call("forecast", fc)>> ELSE << >>)
        ELSE IF c.tables = TablesCorrupt
        THEN [calls |-> << >>, resp |-> http_error(500)]
        ELSE Answer(generate_six_month_forecast(c.tables, request.latitude, request.longitude,
                                                DateOfNow(n), noise),
                    << >>)

----------------------------------------------------------------------------
(* The forecast endpoint on its own.                                        *)

HybridDays == {0, 1, 3, 5, 6, 7, 90, 180, 181}
HybridTypes == {"auto", "short", "long", "weekly"}

\* latitude 10.0 (inside a configured region) and -35.0
HybridRequests ==
    [latitude : {40, -140}, longitude : {288}, days_ahead : HybridDays,
     forecast_type : HybridTypes]

HybridConfigs ==
    [api_key : BOOLEAN, tables : {TablesAll, TablesNoContinent, TablesNone, TablesCorrupt}]

InitForecast ==
    /\ now = [y |-> 2026, m |-> 11, d |-> 5, tod |-> 0]
    /\ ticks = 0
    /\ config \in HybridConfigs
    /\ cache = EmptyDict
    /\ inserted = EmptyDict
    /\ nreq = 0
    /\ pc = "idle"
    /\ obs = EmptyDict

\* the request model turns the request away
RejectForecast(request) ==
    /\ pc = "idle" /\ nreq < MaxRequests
    /\ ~ValidForecastRequest(request)
    /\ nreq' = nreq + 1
    /\ pc' = "answered"
    /\ obs' = [req |-> request, calls |-> << >>, resp |-> http_error(422)]
    /\ UNCHANGED <<now, ticks, config, cache, inserted>>

\* one POST /forecast/hybrid
HybridForecast(request) ==
    /\ pc = "idle" /\ nreq < MaxRequests
    /\ ValidForecastRequest(request)
    /\ nreq' = nreq + 1
    /\ pc' = "answered"
    /\ \E fc \in DailyForecastOutcomes(now, Min(request.days_ahead, 5) * SamplesPerDay) :
          \E noise \in Noises :
             obs' = [req |-> request] @@ hybrid_forecast(config, request, fc, now, noise)
    /\ UNCHANGED <<now, ticks, config, cache, inserted>>

\* (avg, min, max) of a month in hundredths of a degree, min <= max: on and
\* off the tenths, a single value, an average outside the range
ChartTemperatures ==
    {<<2000, 1000, 3000>>, <<1504, 1004, 1996>>, <<1004, 1004, 1004>>, <<1996, 1996, 1996>>,
     <<-1250, -1255, -1245>>, <<4000, 1000, 3000>>}

\* one call of _generate_monthly_temperature_pattern
MonthlyChart(t, days, noise) ==
    /\ pc = "idle" /\ nreq < MaxRequests
    /\ nreq' = nreq + 1
    /\ pc' = "charted"
    /\ obs' = [avg_temp |-> t[1], min_temp |-> t[2], max_temp |-> t[3], days |-> days,
               chart |-> _generate_monthly_temperature_pattern(t[1], t[2], t[3], days, noise)]
    /\ UNCHANGED <<now, ticks, config, cache, inserted>>

ReturnForecast ==
    /\ pc \in {"answered", "charted"}
    /\ pc' = "idle"
    /\ obs' = EmptyDict
    /\ UNCHANGED <<now, ticks, config, cache, inserted, nreq>>

NextForecast ==
    \/ \E request \in HybridRequests : RejectForecast(request)
    \/ \E request \in HybridRequests : HybridForecast(request)
    \/ \E t \in ChartTemperatures, days \in {1, 28, 31}, noise \in Noises :
          MonthlyChart(t, days, noise)
    \/ ReturnForecast

SpecForecast == InitForecast /\ [][NextForecast]_vars

----------------------------------------------------------------------------
(* The Pattern Synthesizer on its own: the two formatters over pattern      *)
(* values and coordinates, and the six-month forecast at several dates.     *)

\* (avg, min, max) of a pattern's temperature, min <= avg <= max: a wide
\* range, narrow ones and a single value
PatternTemperatures ==
    {<<240, 180, 330>>, <<150, 150, 152>>, <<152, 150, 152>>, <<150, 150, 150>>, <<-50, -300, 100>>}

PatternRisk ==
    [very_hot |-> 150, very_cold |-> 20, very_windy |-> 100, very_wet |-> 1200,
     very_uncomfortable |-> 0]

\* the continent and hemisphere documents of one month, as loaded from disk
SynthesizerPatterns ==
    {[temperature |-> [avg |-> t[1], min |-> t[2], max |-> t[3]],
      humidity |-> [avg |-> h], wind_speed |-> [avg |-> w], precipitation |-> [avg |-> pr],
      extreme_weather_risk |-> PatternRisk,
      global_temp |-> [avg |-> t[1], range |-> <<t[2], t[3]>>],
      global_humidity |-> [avg |-> h], global_wind |-> [avg |-> w],
      global_precipitation |-> [avg |-> pr],
      extreme_weather_trends |-> PatternRisk] :
        t \in PatternTemperatures, h \in {0, 1000}, w \in {0, 120}, pr \in {0, 900}}

\* the poles, the date line and the points the requests use
SynthesizerLatitudes == {-360, -140, 40, 360}
SynthesizerLongitudes == {0, 288, 720}

InitSynthesizer ==
    /\ now \in {[y |-> 2026, m |-> 11, d |-> 5, tod |-> 0],
                [y |-> 2027, m |-> 1, d |-> 31, tod |-> 0],
                [y |-> 2027, m |-> 8, d |-> 31, tod |-> 1]}
    /\ ticks = 0
    /\ config \in {[lstm_loader |-> "unloaded", data_router |-> "ready", tables |-> t] :
                        t \in {TablesAll, TablesNoContinent}}
    /\ cache = EmptyDict
    /\ inserted = EmptyDict
    /\ nreq = 0
    /\ pc = "idle"
    /\ obs = EmptyDict

\* one call of a formatter: _format_prediction_from_pattern for a continent
\* document, _format_prediction_from_hemisphere for a hemisphere document
Synthesize(pattern, latQ, lonQ, from) ==
    /\ pc = "idle" /\ nreq < MaxRequests
    /\ nreq' = nreq + 1
    /\ pc' = "synthesized"
    /\ obs' = [pattern |-> pattern, latitude |-> latQ, longitude |-> lonQ, from |-> from,
               record |-> IF from = "continent"
                          THEN format_prediction_from_pattern(pattern, latQ, lonQ,
                                                              "Asia Climate Pattern")
                          ELSE format_prediction_from_hemisphere(pattern, latQ, lonQ,
                                   IF latQ >= 0 THEN "northern" ELSE "southern")]
    /\ UNCHANGED <<now, ticks, config, cache, inserted>>

\* DataRouter.get_six_month_forecast: for i = 0..5 the local prediction for
\* the date 30 * i days from now, with the month counted from the current one
get_six_month_forecast(t, latQ, lonQ, n) ==
    [k \in 1 .. 6 |->
        LET i == k - 1
            future_date == AddDays(DateOfNow(n), 30 * i)
            prediction == get_local_data_prediction(t, latQ, lonQ, future_date, n)
            month_idx == (n.m + i - 1) % 12
        IN  [month |-> month_abbr[month_idx + 1], month_number |-> month_idx + 1,
             date |-> future_date] @@ prediction]

\* one call of get_six_month_forecast
SixMonthForecast(latQ, lonQ) ==
    /\ pc = "idle" /\ nreq < MaxRequests
    /\ nreq' = nreq + 1
    /\ pc' = "forecast"
    /\ obs' = [latitude |-> latQ, longitude |-> lonQ,
               forecasts |-> get_six_month_forecast(config.tables, latQ, lonQ, now)]
    /\ UNCHANGED <<now, ticks, config, cache, inserted>>

ReturnSynthesizer ==
    /\ pc \in {"synthesized", "forecast"}
    /\ pc' = "idle"
    /\ obs' = EmptyDict
    /\ UNCHANGED <<now, ticks, config, cache, inserted, nreq>>

NextSynthesizer ==
    \/ \E pattern \in SynthesizerPatterns, latQ \in SynthesizerLatitudes,
          lonQ \in SynthesizerLongitudes, from \in {"continent", "hemisphere"} :
          Synthesize(pattern, latQ, lonQ, from)
    \/ \E latQ \in {40, 41} : SixMonthForecast(latQ, 288)
    \/ ReturnSynthesizer

SpecSynthesizer == InitSynthesizer /\ [][NextSynthesizer]_vars

----------------------------------------------------------------------------
(* Claims.  A claim about a request reads the observation of the request   *)
(* just answered (pc = "done"); the clock does not move before Return.     *)

Done == pc = "done"

\* the request went through the source router (it was not refused at line 910)
Routed == Done /\ obs.path # "none"

\* the lead time L in whole days: target date minus current date
LeadDays == DayNum(obs.req.date) - DayNum(DateOfNow(now))

Providers == {obs.calls[i].provider : i \in 1 .. Len(obs.calls)}

\* C1: every routed request is served by the path its lead time L in calendar
\* days selects: L <= 0 current conditions, 1 <= L <= 5 short-range forecast,
\* L > 5 long-range baseline (stated where a data router is available)
C1_PathByLeadTime ==
    (Routed /\ config.data_router = "ready") =>
        /\ (LeadDays <= 0 => obs.path = "current")
        /\ (1 <= LeadDays /\ LeadDays <= 5 => obs.path = "short")
        /\ (LeadDays > 5 => obs.path = "long")

\* C3: a request for the calendar day after the current date takes the
\* short-range forecast path at every time of day and never the
\* current-conditions provider
C3_TomorrowIsShortRange ==
    (Routed /\ config.data_router = "ready" /\ LeadDays = 1) =>
        (obs.path = "short" /\ "current" \notin Providers)

ReqKey == cache_key(obs.req.latitude, obs.req.longitude, obs.req.date)

\* C2: a long-range request answered from the cache obtains, field for field,
\* the record that the request which filled the entry obtained
C2_CacheHitIdentical ==
    (Done /\ obs.path = "long" /\ obs.hit) =>
        \A f \in DOMAIN inserted[ReqKey] : obs.lookup[f] = inserted[ReqKey][f]

ObsFields == {"temperature", "temp_max", "temp_min", "humidity", "wind_speed",
              "precipitation", "pressure"}

\* the historical provider failed or returned no rows
NoHistory(call) ==
    call.provider = "historical" /\ (~call.outcome.ok \/ call.outcome.df = << >>)

\* C4: on a long-range miss whose historical fetch fails or is empty, the
\* current-conditions provider is asked next, and when it answers the request
\* succeeds on its record, labelled as a current-weather baseline
C4_HistoricalFallback ==
    (Done /\ obs.path = "long" /\ ~obs.hit /\ Len(obs.calls) >= 1 /\ NoHistory(obs.calls[1])) =>
        /\ Len(obs.calls) = 2
        /\ obs.calls[2].provider = "current"
        /\ obs.calls[2].outcome.ok =>
              /\ obs.resp.status = 200
              /\ obs.lookup.data_source = "Current Weather Baseline"
              /\ \A f \in ObsFields : obs.lookup[f] = obs.calls[2].outcome.main[f]

C4_Witness ==
    /\ Done /\ obs.path = "long" /\ Len(obs.calls) = 2
    /\ NoHistory(obs.calls[1])
    /\ obs.calls[2].outcome.ok
    /\ obs.resp.status = 200
    /\ obs.lookup.data_source = "Current Weather Baseline"

\* the forecast provider failed or returned no samples
NoForecast(call) ==
    call.provider = "forecast" /\ (~call.outcome.ok \/ call.outcome.list = << >>)

PatternSources ==
    {"Asia Climate Pattern", "Europe Climate Pattern", "Northern Hemisphere Pattern",
     "Southern Hemisphere Pattern", "Global Climate Model"}

\* C5: on the short-range path, when the forecast provider fails or returns
\* no samples, the record is the Pattern Synthesizer's for the same coordinate
\* and date, the request succeeds and no other provider is asked
C5_ForecastFallback ==
    (Done /\ obs.path = "short" /\ Len(obs.calls) >= 1 /\ NoForecast(obs.calls[1])) =>
        /\ Len(obs.calls) = 1
        /\ obs.resp.status = 200
        /\ obs.lookup.data_source \in PatternSources
        /\ obs.lookup = get_local_data_prediction(config.tables, obs.req.latitude,
                            obs.req.longitude, obs.req.date, now)

C5_Witness ==
    /\ Done /\ obs.path = "short" /\ Len(obs.calls) = 1
    /\ ~obs.calls[1].outcome.ok
    /\ obs.resp.status = 200
    /\ obs.lookup.data_source = "Asia Climate Pattern"

\* the call got no usable answer
NoAnswer(call) == ~call.outcome.ok \/ NoHistory(call) \/ NoForecast(call)

\* C6: a request makes at most two upstream calls, never the same provider
\* twice, a second call only after the first got no answer, and the only
\* two-call chain is historical then current conditions
C6_AtMostOneFallback ==
    Done =>
        /\ Len(obs.calls) <= 2
        /\ \A i, j \in 1 .. Len(obs.calls) :
              i < j => (obs.calls[i].provider # obs.calls[j].provider /\ NoAnswer(obs.calls[i]))
        /\ Len(obs.calls) = 2 =>
              (obs.calls[1].provider = "historical" /\ obs.calls[2].provider = "current")

C6_Witness ==
    Done /\ Len(obs.calls) = 2 /\ ~obs.calls[1].outcome.ok /\ ~obs.calls[2].outcome.ok

\* C7: a key the cache holds stays in the cache, and a long-range request
\* whose key the cache holds is answered from it without an upstream call
C7_CacheEntriesStay ==
    [][ /\ DOMAIN cache \subseteq DOMAIN cache'
        /\ (pc = "idle" /\ pc' = "done" /\ obs'.path = "long"
            /\ cache_key(obs'.req.latitude, obs'.req.longitude, obs'.req.date) \in DOMAIN cache)
           => (obs'.hit /\ obs'.calls = << >> /\ obs'.resp.status = 200) ]_vars

C7_Witness ==
    Done /\ obs.path = "long" /\ obs.hit /\ obs.calls = << >> /\ ReqKey \in DOMAIN cache

\* the model gave no output: no loader, not loaded, or inference raised
ModelUnavailable ==
    \/ config.lstm_loader \in {"none", "unloaded"}
    \/ (obs.model # EmptyDict /\ ~obs.model.ok)

\* the last provider of the chain failed, so there is no weather record
UpstreamFailed ==
    Len(obs.calls) > 0 /\ ~obs.calls[Len(obs.calls)].outcome.ok
        /\ obs.calls[Len(obs.calls)].provider = "current"

\* C8: whenever the model is unavailable (a weather record being available)
\* the request succeeds on the heuristic path
C8_ModelUnavailableNeverFails ==
    (Done /\ ModelUnavailable /\ ~UpstreamFailed) =>
        (obs.resp.status = 200 /\ obs.resp.used = "heuristic")

\* the response was scored by the model-backed path
ModelBacked == Done /\ obs.resp.status = 200 /\ obs.resp.used = "model"

\* C9: on the model-backed path very_hot, very_cold and very_uncomfortable
\* are scored on the source-provided temperature, whatever the anomaly
C9_TemperatureNotAdjusted ==
    ModelBacked =>
        LET temp == obs.lookup.temperature
            humidity == obs.lookup.humidity
            anomaly == obs.model.temperature_anomaly
        IN  /\ obs.resp.predictions.very_hot = calculate_hot_probability(temp, anomaly)
            /\ obs.resp.predictions.very_cold = calculate_cold_probability(temp, anomaly)
            /\ obs.resp.predictions.very_uncomfortable =
                  calculate_discomfort_probability(heat_index(temp, humidity), temp, humidity)

\* base_precip * (1 + precip_anomaly) of the answered request
AdjustedPrecip ==
    (obs.lookup.precipitation * (100 + obs.model.precipitation_anomaly)) \div 100

\* min(0.4, 0.5 * precip_anomaly) if precip_anomaly > 0.5 else 0
WetBonus ==
    IF obs.model.precipitation_anomaly > 50
    THEN Min(4 * (PScale \div 10), obs.model.precipitation_anomaly * (PScale \div 200))
    ELSE 0

\* C10 as stated: very_wet = clamp(max(0, adjusted_precip / 200) + bonus) for
\* base_precip >= 0; base 10 mm with anomaly 0.6 gives 16 mm and 0.38
C10_WetWithoutThreshold ==
    (ModelBacked /\ obs.lookup.precipitation >= 0) =>
        /\ obs.resp.predictions.very_wet =
              Min(PScale, Max(0, Max(0, AdjustedPrecip * (PScale \div 200000)) + WetBonus))
        /\ (obs.lookup.precipitation = 10000 /\ obs.model.precipitation_anomaly = 60) =>
              (AdjustedPrecip = 16000 /\ obs.resp.predictions.very_wet = 38 * (PScale \div 100))

\* C10 amended: adjusted_precip / 200 (at most 1) counts only when
\* adjusted_precip > 50 mm; base 10 mm with anomaly 0.6 gives 16 mm and 0.30
C10_WetAboveThreshold ==
    ModelBacked =>
        /\ obs.resp.weather.precipitation = AdjustedPrecip
        /\ obs.resp.predictions.very_wet =
              Min(PScale, Max(0, (IF AdjustedPrecip > 50000
                                  THEN Min(PScale, AdjustedPrecip * (PScale \div 200000))
                                  ELSE 0) + WetBonus))
        /\ (obs.lookup.precipitation = 10000 /\ obs.model.precipitation_anomaly = 60) =>
              (AdjustedPrecip = 16000 /\ obs.resp.predictions.very_wet = 30 * (PScale \div 100))

C10_Witness ==
    /\ ModelBacked
    /\ obs.lookup.precipitation = 10000 /\ obs.model.precipitation_anomaly = 60
    /\ obs.resp.predictions.very_wet = 30 * (PScale \div 100)

Conditions == {"very_hot", "very_cold", "very_windy", "very_wet", "very_uncomfortable"}

\* weather values and anomalies well outside what the providers return
GridTemperature == {-400, 40, 200, 360, 900}
GridHumidity == {0, 600, 1000}
GridWind == {0, 210, 900}
GridPrecipitation == {-30000, 0, 60000, 900000}
GridTemperatureAnomaly == {-200, 0, 50, 200}
GridPrecipitationAnomaly == {-150, 60, 500}
GridRisk == {-100, 0, 150, 1200, 50000}
GridVariation == {-2 * VScale, 0, 48260, 2 * VScale}

InUnit(p) == 0 <= p /\ p <= PScale
AtMostTenth(p) == 0 <= p /\ p <= PScale \div 10

\* the model-backed scores over the grid
ModelScoresInUnit ==
    \A t \in GridTemperature, h \in GridHumidity, w \in GridWind, pr \in GridPrecipitation,
       ta \in GridTemperatureAnomaly, pa \in GridPrecipitationAnomaly :
        LET out == [raised |-> FALSE, temperature_anomaly |-> ta, precipitation_anomaly |-> pa,
                    base_temperature |-> t, base_precipitation |-> pr]
            wd == [temperature |-> t, humidity |-> h, wind_speed |-> w,
                   precipitation |-> adjusted_precip(out)]
            p == convert_to_extreme_weather_predictions(out, wd)
        IN  \A k \in Conditions : InUnit(p[k])

\* the heuristic scores and the synthesized risk maps over the grid
HeuristicScoresAtMostTenth ==
    /\ \A t \in GridTemperature, h \in GridHumidity, w \in GridWind, pr \in GridPrecipitation :
          LET p == generate_predictions_from_weather(
                       [temperature |-> t, humidity |-> h, wind_speed |-> w, precipitation |-> pr])
          IN  \A k \in Conditions : AtMostTenth(p[k])
    /\ \A b \in GridRisk, v \in GridVariation, slope \in {6, 9} :
          AtMostTenth(RiskMap([very_hot |-> b], v, slope).very_hot)
    /\ \A k \in Conditions : AtMostTenth(get_default_prediction.extreme_weather_risk[k])

\* C11: every probability of every successful response is in [0,1], and at
\* most 0.1 when the heuristic path produced it; the scoring functions keep
\* these ranges for all weather values and anomalies, negative adjusted
\* precipitation included
C11_ProbabilitiesInRange ==
    /\ (Done /\ obs.resp.status = 200) =>
          /\ DOMAIN obs.resp.predictions = Conditions
          /\ \A k \in Conditions :
                /\ InUnit(obs.resp.predictions[k])
                /\ obs.resp.used = "heuristic" => AtMostTenth(obs.resp.predictions[k])
    /\ (pc = "idle" /\ nreq = 0 /\ ticks = 0) =>
          (ModelScoresInUnit /\ HeuristicScoresAtMostTenth)

C11_Witness ==
    /\ ModelBacked
    /\ obs.resp.weather.precipitation < 0
    /\ obs.resp.predictions.very_wet = 0
    /\ obs.resp.predictions.very_uncomfortable = PScale

\* the tiers by their closed lower bounds, in fifths
TierNames == <<"MINIMAL", "LOW", "MODERATE", "HIGH", "EXTREME">>
Tier(m) == TierNames[Min(4, (5 * m) \div PScale) + 1]

\* the boundaries, the values just below them, and the ends
GridMax ==
    {0, PScale} \cup {b * (PScale \div 10) - e : b \in {2, 4, 6, 8}, e \in {0, 1}}
GridOther == {0, 1, PScale \div 10}

\* a profile with maximum m at condition k and q elsewhere
Profile(k, m, q) == [c \in Conditions |-> IF c = k THEN m ELSE Min(q, m)]

\* C12: the risk level is the tier of the maximum of the five probabilities,
\* each tier closed at its lower bound (0.2, 0.4, 0.6, 0.8), wherever the
\* maximum sits and whatever the other four are
C12_RiskLadder ==
    /\ (Done /\ obs.resp.status = 200) =>
          \E k \in Conditions :
              /\ \A c \in Conditions : obs.resp.predictions[c] <= obs.resp.predictions[k]
              /\ obs.resp.risk_level = Tier(obs.resp.predictions[k])
    /\ (pc = "idle" /\ nreq = 0 /\ ticks = 0) =>
          \A k \in Conditions, m \in GridMax, q \in GridOther :
              assess_risk_level(Profile(k, m, q)) = Tier(m)

C12_Witness ==
    /\ Done /\ obs.resp.status = 200
    /\ obs.resp.predictions.very_wet = 4 * (PScale \div 10)
    /\ \A c \in Conditions : obs.resp.predictions[c] <= obs.resp.predictions.very_wet
    /\ obs.resp.risk_level = "MODERATE"

\* the record that reached the blender carries a region-derived risk map
CarriesRiskMap ==
    Done /\ obs.resp.status = 200 /\ "extreme_weather_risk" \in DOMAIN obs.lookup

\* the model was loaded and inference returned
ModelAnswered == obs.model # EmptyDict /\ obs.model.ok

\* C13: a record that carries a risk map is always scored by the
\* heuristic-only path, the response's probabilities being that map, whether
\* or not the model is loaded
C13_RiskMapAlwaysHeuristic ==
    CarriesRiskMap =>
        (obs.resp.used = "heuristic" /\ obs.resp.predictions = obs.lookup.extreme_weather_risk)

\* C13 amended: a record that carries a risk map is answered with that map
\* and the record's own label when the model is not loaded or inference
\* raises; when the model answers, the model-backed path scores the record
C13_RiskMapWhenModelUnavailable ==
    CarriesRiskMap =>
        IF ModelAnswered
        THEN /\ obs.resp.used = "model"
             /\ obs.resp.data_source = "LSTM + NASA Hybrid Model"
             /\ obs.resp.predictions =
                   convert_to_extreme_weather_predictions(obs.lstm_output, obs.lookup)
        ELSE /\ obs.resp.used = "heuristic"
             /\ obs.resp.predictions = obs.lookup.extreme_weather_risk
             /\ obs.resp.data_source = obs.lookup.data_source

C13_Witness ==
    /\ CarriesRiskMap
    /\ config.lstm_loader = "loaded" /\ ~ModelAnswered
    /\ obs.resp.predictions = obs.lookup.extreme_weather_risk
    /\ obs.resp.data_source = "Asia Climate Pattern"

\* C14: the record that reached the blender carries a non-empty label, the
\* response's label is that record's label (so it names the path that
\* produced the weather values and tells a fallback from a non-degraded
\* answer), and the current-conditions path is labelled as live weather
C14_LabelNamesSource ==
    (Done /\ obs.resp.status = 200) =>
        /\ "data_source" \in DOMAIN obs.lookup
        /\ obs.lookup.data_source # ""
        /\ obs.resp.data_source = obs.lookup.data_source
        /\ obs.path = "current" => obs.resp.data_source = "OpenWeatherMap API"

\* coordinates in quarter degrees: the poles, the date line, box edges, the
\* requests' own point and points outside every configured box
GridLatitude == {4 * d : d \in {-90, -60, -10, 0, 5, 10, 40, 71, 90}}
GridLongitude == {4 * d : d \in {-180, -100, -30, 0, 45, 72, 100, 180}}

\* the router's continent, its "no continent" read as unknown
RouterContinent(latQ, lonQ) ==
    LET c == get_region_from_coords(latQ, lonQ).continent
    IN  IF c = NoContinent THEN "unknown" ELSE c

\* C15: the Pattern Synthesizer's resolver gives every coordinate a
\* hemisphere (northern iff lat >= 0) and the continent of the first
\* configured box holding the point, else of the first secondary zone holding
\* it, else unknown: the continent ClimatePatternService.get_region_info gives
C15_ResolversAgree ==
    /\ (Done /\ obs.path = "short") =>
          RouterContinent(obs.req.latitude, obs.req.longitude)
              = get_region_info(obs.req.latitude, obs.req.longitude).continent
    /\ (pc = "idle" /\ nreq = 0 /\ ticks = 0) =>
          \A latQ \in GridLatitude, lonQ \in GridLongitude :
              /\ get_region_from_coords(latQ, lonQ).hemisphere
                    = (IF latQ >= 0 THEN "northern" ELSE "southern")
              /\ get_region_info(latQ, lonQ).hemisphere
                    = get_region_from_coords(latQ, lonQ).hemisphere
              /\ RouterContinent(latQ, lonQ) = get_region_info(latQ, lonQ).continent

\* the short-range path answered with the Pattern Synthesizer's record
Synthesized ==
    Done /\ obs.path = "short" /\ "extreme_weather_risk" \in DOMAIN obs.lookup

\* C16: the synthesized record comes from the continent pattern when the
\* resolved continent has one, else from the hemisphere pattern when there is
\* one, else it is the fixed default of temperature 20, humidity 65,
\* precipitation 100 and wind speed 15
C16_SynthesizerPrecedence ==
    Synthesized =>
        LET region == get_region_from_coords(obs.req.latitude, obs.req.longitude)
        IN  IF region.continent \in config.tables.continent_data
            THEN obs.lookup.data_source = ContinentTitle(region.continent) \o " Climate Pattern"
            ELSE IF region.hemisphere \in config.tables.hemisphere_data
            THEN obs.lookup.data_source \in {"Northern Hemisphere Pattern",
                                             "Southern Hemisphere Pattern"}
            ELSE /\ obs.lookup.data_source = "Global Climate Model"
                 /\ obs.lookup.temperature = 200
                 /\ obs.lookup.humidity = 650
                 /\ obs.lookup.precipitation = 100000
                 /\ obs.lookup.wind_speed = 150

\* the history was fetched and has no row for the target date
TargetRowMissing ==
    /\ pc = "built" /\ obs.hist.ok
    /\ RowsOn(obs.hist.df, DayNum(obs.req.date)) = << >>

\* C17: when the fetched history has no row for the target date,
\* build_complete_features returns a feature mapping (the temporal features
\* at least, defaults for the missing lags and windows) and does not raise
C17_SparseHistoryTolerated ==
    TargetRowMissing =>
        /\ ~obs.result.raised
        /\ DOMAIN create_temporal_features(obs.req.date) \subseteq DOMAIN obs.result.features

\* sample i of the list is nearest to the target slot and no earlier sample
\* is as near
NearestFirst(list, targetSlot, i) ==
    /\ \A j \in 1 .. Len(list) : Abs(list[i].dt - targetSlot) <= Abs(list[j].dt - targetSlot)
    /\ \A j \in 1 .. (i - 1) : Abs(list[j].dt - targetSlot) > Abs(list[i].dt - targetSlot)

\* sample lists around a target, in half days from it, with ties and with the
\* nearest sample first, last and in the middle; each sample has its own
\* temperature
GridSampleOffsets ==
    {<<0>>, <<-2, 2>>, <<2, -2>>, <<4, -1, 1>>, <<3, 1, -1, 0>>, <<-5, -3, 3, 6>>, <<1, 1, 1>>}
GridSamples(targetSlot, offs) ==
    [i \in 1 .. Len(offs) |->
        [dt |-> targetSlot + offs[i], main |-> [Mild EXCEPT !.temperature = 100 + i]]]

\* C18: on the short-range path with the forecast provider answering, the
\* record is built from the earliest-listed sample among those nearest in time
\* to the target date, and its temperature is that sample's
C18_NearestSample ==
    /\ (Done /\ obs.path = "short" /\ obs.calls # << >>
        /\ obs.calls[1].provider = "forecast" /\ ~NoForecast(obs.calls[1])) =>
          \E i \in 1 .. Len(obs.calls[1].outcome.list) :
              /\ NearestFirst(obs.calls[1].outcome.list, 2 * DayNum(obs.req.date), i)
              /\ obs.lookup.forecast_time = obs.calls[1].outcome.list[i].dt
              /\ obs.lookup.temperature = obs.calls[1].outcome.list[i].main.temperature
              /\ obs.lookup.data_source = "OpenWeatherMap Forecast"
    /\ (pc = "idle" /\ nreq = 0 /\ ticks = 0) =>
          \A date \in {r.date : r \in Requests}, offs \in GridSampleOffsets :
              LET list == GridSamples(2 * DayNum(date), offs)
                  w == get_weather_api_data(date, [ok |-> TRUE, list |-> list])
              IN  /\ ~w.none
                  /\ \E i \in 1 .. Len(list) :
                        /\ NearestFirst(list, 2 * DayNum(date), i)
                        /\ w.record.temperature = list[i].main.temperature

C18_Witness ==
    /\ Done /\ obs.path = "short" /\ obs.resp.status = 200
    /\ Len(obs.calls) = 1 /\ obs.calls[1].outcome.ok
    /\ Len(obs.calls[1].outcome.list) = 2
    /\ obs.lookup.forecast_time = obs.calls[1].outcome.list[2].dt
    /\ obs.lookup.temperature = obs.calls[1].outcome.list[2].main.temperature
    /\ obs.lookup.temperature # obs.calls[1].outcome.list[1].main.temperature

Answered == pc = "answered" /\ obs.resp.status = 200

\* every entry of a forecast is a month of the pattern service
MonthlyEntries(forecasts) ==
    \A i \in 1 .. Len(forecasts) :
        /\ "month_number" \in DOMAIN forecasts[i]
        /\ forecasts[i].month_number \in 1 .. 12

\* C19: an answered 'auto' request is resolved to 'short' exactly when
\* days_ahead <= 5 and to 'long' otherwise; a short forecast has at most
\* min(days_ahead, 5) entries and a long forecast exactly 6 monthly entries
C19_AutoForecastType ==
    Answered =>
        /\ obs.req.forecast_type = "auto" =>
              /\ obs.resp.forecast_type = "short" <=> obs.req.days_ahead <= 5
              /\ obs.resp.forecast_type = "long" <=> obs.req.days_ahead > 5
        /\ obs.resp.forecast_type = "short" =>
              Len(obs.resp.forecasts) <= Min(obs.req.days_ahead, 5)
        /\ obs.resp.forecast_type = "long" =>
              /\ Len(obs.resp.forecasts) = 6
              /\ MonthlyEntries(obs.resp.forecasts)

\* an 'auto' request three days ahead answered from a provider whose first 24
\* samples fall on four dates
C19_Witness ==
    /\ Answered
    /\ obs.req.forecast_type = "auto" /\ obs.req.days_ahead = 3
    /\ obs.resp.forecast_type = "short"
    /\ obs.calls # << >> /\ obs.calls[1].outcome.ok
    /\ Len(obs.calls[1].outcome.list) = FullForecast
    /\ obs.calls[1].outcome.list[1].date # obs.calls[1].outcome.list[2 * SamplesPerDay].date
    /\ Len(obs.resp.forecasts) = 3

\* the month wheel: the target's calendar month counted from the current one
MonthWheel(target, current) == ((target.m - current.m) % 6) + 1

\* target and current dates a year or two apart either way, every month
GridYears == 2024 .. 2028
GridCurrentYears == {2026, 2027}
GridMonths == 1 .. 12

\* C20: the month offset of the Pattern Synthesizer equals
\* ((target.month - current.month) mod 6) + 1 and lies in 1..6 for every
\* target and current date, the target's year later or earlier included; the
\* synthesized record is the one of that month of the pattern
C20_MonthOffset ==
    /\ (Synthesized /\ obs.lookup.data_source = "Asia Climate Pattern") =>
          obs.lookup =
             format_prediction_from_pattern(
                 ContinentPattern("asia", MonthWheel(obs.req.date, now)),
                 obs.req.latitude, obs.req.longitude, "Asia Climate Pattern")
    /\ (pc = "idle" /\ nreq = 0 /\ ticks = 0) =>
          \A ty \in GridYears, cy \in GridCurrentYears, tm \in GridMonths, cm \in GridMonths :
              LET target == Date(ty, tm, 1)
                  current == [y |-> cy, m |-> cm, d |-> 28, tod |-> 0]
              IN  /\ pattern_index(target, current) = MonthWheel(target, current)
                  /\ pattern_index(target, current) \in 1 .. 6
                  /\ get_local_data_prediction(TablesAll, 40, 288, target, current) =
                        format_prediction_from_pattern(
                            ContinentPattern("asia", MonthWheel(target, current)),
                            40, 288, "Asia Climate Pattern")

\* a request answered by the Pattern Synthesizer from the continent's pattern
\* of the first month of the wheel
C20_Witness ==
    /\ Synthesized /\ obs.lookup.data_source = "Asia Climate Pattern"
    /\ pattern_index(obs.req.date, now) = 1
    /\ obs.lookup.temperature = format_prediction_from_pattern(
           ContinentPattern("asia", 1), obs.req.latitude, obs.req.longitude, "").temperature

\* C21: every baseline cache entry is the record that was computed and
\* inserted at the miss that created it; nothing a request does afterwards
\* (adding latitude, longitude and date, replacing the precipitation by the
\* model-adjusted one) changes a record the cache holds
C21_CacheEntriesAsInserted ==
    \A k \in DOMAIN cache : k \in DOMAIN inserted /\ cache[k] = inserted[k]

HistoryFailed ==
    Done /\ obs.path = "long" /\ ~obs.hit /\ obs.calls # << >> /\ NoHistory(obs.calls[1])

\* C23: a failed historical fetch never populates the baseline cache: the
\* request that fell back to current conditions inserts nothing, a cache hit
\* never returns a current-weather fallback record, and a long-range request
\* whose key the cache does not hold asks the historical provider first
C23_FailedFetchNotCached ==
    [][ /\ (pc = "idle" /\ HistoryFailed') => cache' = cache
        /\ (pc = "idle" /\ pc' = "done" /\ obs'.path = "long" /\ obs'.hit) =>
              obs'.lookup.data_source # "Current Weather Baseline"
        /\ (pc = "idle" /\ pc' = "done" /\ obs'.path = "long"
            /\ cache_key(obs'.req.latitude, obs'.req.longitude, obs'.req.date) \notin DOMAIN cache)
           => (obs'.calls # << >> /\ obs'.calls[1].provider = "historical") ]_vars

\* the second request of a run fell back to current conditions and succeeded,
\* and its key is not in the cache
C23_Witness ==
    /\ HistoryFailed /\ nreq = 2
    /\ obs.resp.status = 200
    /\ obs.lookup.data_source = "Current Weather Baseline"
    /\ ReqKey \notin DOMAIN cache

\* a response scored by _generate_predictions_from_weather
HeuristicScored ==
    Done /\ obs.resp.status = 200 /\ obs.resp.used = "heuristic"
    /\ "extreme_weather_risk" \notin DOMAIN obs.lookup

\* C24: the heuristic scores are 0 below the thresholds of the model-backed
\* path, on the raw fields: very_hot at temperature <= 35, very_cold at
\* temperature >= 5, very_windy at wind speed <= 20, very_wet at
\* precipitation <= 0, very_uncomfortable at a heat index <= 40
C24_HeuristicThresholds ==
    HeuristicScored =>
        LET w == obs.resp.weather
            p == obs.resp.predictions
        IN  /\ w.temperature <= 350 => p.very_hot = 0
            /\ w.temperature >= 50 => p.very_cold = 0
            /\ w.wind_speed <= 200 => p.very_windy = 0
            /\ w.precipitation <= 0 => p.very_wet = 0
            /\ heat_index(w.temperature, w.humidity) <= 400000 => p.very_uncomfortable = 0

\* a response of the heuristic-only path: scored by the heuristics or carrying
\* the risk map of its record
HeuristicOnly == Done /\ obs.resp.status = 200 /\ obs.resp.used = "heuristic"

\* C25: every response of the heuristic-only path has risk level MINIMAL,
\* whatever the weather values
C25_HeuristicIsMinimal ==
    /\ HeuristicOnly => obs.resp.risk_level = "MINIMAL"
    /\ (pc = "idle" /\ nreq = 0 /\ ticks = 0) =>
          \A t \in GridTemperature, h \in GridHumidity, w \in GridWind, pr \in GridPrecipitation :
              assess_risk_level(generate_predictions_from_weather(
                  [temperature |-> t, humidity |-> h, wind_speed |-> w, precipitation |-> pr]))
              = "MINIMAL"

\* a heuristic response with a score at the cap
C25_Witness ==
    /\ HeuristicScored
    /\ \E k \in Conditions : obs.resp.predictions[k] = PScale \div 10
    /\ obs.resp.risk_level = "MINIMAL"

\* C26: for every pattern and every variation the synthesized record has
\* humidity in [10, 95], clouds in [0, 100], precipitation >= 0, wind speed
\* >= 0 and temp_min <= temperature <= temp_max
C26_SynthesizerRanges ==
    pc = "synthesized" =>
        LET r == obs.record
        IN  /\ 100 <= r.humidity /\ r.humidity <= 950
            /\ 0 <= r.clouds /\ r.clouds <= 100
            /\ r.precipitation >= 0
            /\ r.wind_speed >= 0
            /\ r.temp_min <= r.temperature /\ r.temperature <= r.temp_max

\* the record the synthesizer makes of pattern month_k for the point
FromMonth(t, latQ, lonQ, k) ==
    LET region == get_region_from_coords(latQ, lonQ)
    IN  IF region.continent # NoContinent /\ region.continent \in t.continent_data
        THEN format_prediction_from_pattern(ContinentPattern(region.continent, k), latQ, lonQ,
                 ContinentTitle(region.continent) \o " Climate Pattern")
        ELSE format_prediction_from_hemisphere(HemispherePattern(region.hemisphere, k),
                 latQ, lonQ, region.hemisphere)

\* C30: at every current date get_six_month_forecast returns six entries, the
\* i-th (i = 0..5) synthesized from pattern month_(i+1) and with month_number
\* the calendar month of its date, so the entries cover six distinct
\* consecutive months
C30_SixMonthForecast ==
    (pc = "forecast" /\ config.tables.hemisphere_data # {}) =>
        /\ Len(obs.forecasts) = 6
        /\ \A k \in 1 .. 6 :
              LET entry == obs.forecasts[k]
                  made == FromMonth(config.tables, obs.latitude, obs.longitude, k)
              IN  /\ \A f \in DOMAIN made : entry[f] = made[f]
                  /\ entry.month_number = entry.date.m
        /\ \A k \in 1 .. 5 :
              obs.forecasts[k + 1].date.m = (obs.forecasts[k].date.m % 12) + 1

\* C27: the daily temperature curve of a month has exactly days_in_month
\* values and every value lies in [min, max], whatever the noise of each day
C27_ChartWithinRange ==
    pc = "charted" =>
        /\ Len(obs.chart) = obs.days
        /\ \A k \in 1 .. Len(obs.chart) :
              obs.min_temp <= 10 * obs.chart[k] /\ 10 * obs.chart[k] <= obs.max_temp

\* the observations of a column dated target - w, ..., target - 1
InWindow(df, target, w, col) ==
    LET idx == {i \in 1 .. Len(df) : df[i].date \in (target - w) .. (target - 1)}
        rows == SelectSeq([i \in 1 .. Len(df) |-> <<i, df[i][col]>>], LAMBDA x : x[1] \in idx)
    IN  [i \in 1 .. Len(rows) |-> rows[i][2]]

\* C28: the rolling features of a window of length w are taken over the
\* observations dated in [target - w, target): the target day's observation
\* is left out and that of target - w is in; an empty window gives mean, std,
\* max and min 0 and a window of one observation std 0
C28_RollingWindow ==
    (pc = "built" /\ obs.hist.ok) =>
        LET df == obs.hist.df
            target == DayNum(obs.req.date)
            f == create_rolling_features(df, target)
            Stat(col, stat, w) == f[col \o "_rolling_" \o stat \o "_" \o ToString(w)]
        IN  /\ \A col \in ColumnsOf(df), w \in Range(rolling_window_days) :
                  LET vals == InWindow(df, target, w, col)
                  IN  IF vals = << >>
                      THEN \A stat \in {"mean", "std", "max", "min"} : Stat(col, stat, w) = 0
                      ELSE /\ Stat(col, "mean", w) = SeqSum(vals) \div Len(vals)
                           /\ Stat(col, "max", w) = SeqMax(vals)
                           /\ Stat(col, "min", w) = SeqMin(vals)
                           /\ Len(vals) = 1 => Stat(col, "std", w) = 0
            /\ ~obs.result.raised =>
                  \A name \in DOMAIN f : obs.result.features[name] = f[name]

\* a frame with the target day, the day before and the day seven days before:
\* the window of 7 holds two observations, the window of 3 one
C28_Witness ==
    /\ pc = "built" /\ obs.hist.ok /\ ~obs.result.raised
    /\ {obs.hist.df[i].date : i \in 1 .. Len(obs.hist.df)}
           = {DayNum(obs.req.date) - 7, DayNum(obs.req.date) - 1, DayNum(obs.req.date)}
    /\ obs.result.features["T2M_rolling_max_7"] = Hot.temperature
    /\ obs.result.features["T2M_rolling_min_7"] = Cold.temperature
    /\ obs.result.features["T2M_rolling_std_3"] = 0
    /\ obs.result.features["T2M_rolling_mean_3"] = Hot.temperature

\* the names the adapter computes, and the input field and default behind
\* each name that is a field's own value
ComputedNames ==
    {"T2M_scaled", "T2M_MAX_scaled", "T2M_MIN_scaled", "PRECTOTCORR_log",
     "ALLSKY_SFC_SW_DWN_scaled", "RH2M_scaled", "QV2M_scaled", "T2M_range_scaled",
     "precip_log_scaled", "month_sin_scaled", "month_cos_scaled", "season_encoded",
     "latitude_scaled", "longitude_scaled"}

FieldOf ==
    [T2M_scaled |-> <<"temperature", 200>>, T2M_MAX_scaled |-> <<"temp_max", 250>>,
     T2M_MIN_scaled |-> <<"temp_min", 150>>, ALLSKY_SFC_SW_DWN_scaled |-> <<"radiation", 2000>>,
     RH2M_scaled |-> <<"humidity", 600>>, QV2M_scaled |-> <<"specific_humidity", 100>>,
     latitude_scaled |-> <<"latitude", 0>>, longitude_scaled |-> <<"longitude", 0>>]

\* declared feature lists: none, the computed names in two orders with names
\* the adapter does not compute, and a name declared twice
FeatureNameLists ==
    { << >>,
      <<"T2M_scaled", "T2M_MAX_scaled", "T2M_MIN_scaled", "PRECTOTCORR_log",
        "ALLSKY_SFC_SW_DWN_scaled", "RH2M_scaled", "QV2M_scaled", "WS2M_scaled",
        "T2M_range_scaled", "precip_log_scaled", "month_sin_scaled", "month_cos_scaled",
        "season_encoded", "latitude_scaled", "longitude_scaled", "PS_scaled">>,
      <<"PS_scaled", "longitude_scaled", "latitude_scaled", "season_encoded",
        "month_cos_scaled", "month_sin_scaled", "RH2M_scaled", "T2M_scaled">>,
      <<"RH2M_scaled", "temperature", "RH2M_scaled">> }

\* the input fields the adapter reads
AdapterFields ==
    {"temperature", "temp_max", "temp_min", "precipitation", "radiation", "humidity",
     "specific_humidity", "date", "latitude", "longitude"}

\* a complete record as predict hands it over, and the same record with any
\* of the fields missing
AdapterRecord(o, request) ==
    DictSet(DictSet(DictSet(CurrentRecord(o, "OpenWeatherMap API"),
                            "latitude", request.latitude),
                    "longitude", request.longitude), "date", request.date)

GridAdapterRecords ==
    {[k \in (DOMAIN AdapterRecord(o, request)) \ missing |-> AdapterRecord(o, request)[k]] :
        o \in {Hot, Obs(20, 60, -20, 500, 300, -30000)},
        request \in {[latitude |-> -140, longitude |-> 288, date |-> Date(2027, 3, 5)]},
        missing \in SUBSET AdapterFields}

\* the array has one entry per declared name, in the declared order
FeaturesAsDeclared(feature_names, weather_data, n) ==
    LET out == prepare_features("loaded", feature_names, weather_data, n)
        date == DictGet(weather_data, "date", DateOfNow(n))
    IN  /\ ~out.raised
        /\ Len(out.array) = Len(feature_names)
        /\ \A i \in 1 .. Len(feature_names) :
              LET name == feature_names[i]
              IN  /\ name \notin ComputedNames => out.array[i] = 0
                  /\ name \in DOMAIN FieldOf =>
                        out.array[i] = DictGet(weather_data, FieldOf[name][1], FieldOf[name][2])
                  /\ name = "T2M_range_scaled" =>
                        out.array[i] = DictGet(weather_data, "temp_max", 250)
                                           - DictGet(weather_data, "temp_min", 150)
                  /\ name \in {"PRECTOTCORR_log", "precip_log_scaled"} =>
                        out.array[i] = log1p(DictGet(weather_data, "precipitation", 1000))
                  /\ name = "season_encoded" =>
                        out.array[i] = (IF date.m \in {12, 1, 2} THEN 1
                                        ELSE IF date.m <= 5 THEN 2
                                        ELSE IF date.m <= 8 THEN 3 ELSE 4)
                  /\ name = "month_sin_scaled" => out.array[i] = SinTurnE4(date.m, 12)
                  /\ name = "month_cos_scaled" => out.array[i] = CosTurnE4(date.m, 12)

\* the record the model adapter was handed by the answered request
HandedRecord ==
    DictSet(DictSet(DictSet(obs.lookup, "latitude", obs.req.latitude),
                    "longitude", obs.req.longitude), "date", obs.req.date)

\* C29: the feature array has exactly one entry per declared feature name, in
\* the declared order; the entry of a declared name the adapter does not
\* compute is 0.0, and a missing input field degrades to its default and
\* never raises
C29_FeaturesAsDeclared ==
    /\ (Done /\ config.lstm_loader = "loaded" /\ obs.resp.status = 200) =>
          \A feature_names \in FeatureNameLists :
              FeaturesAsDeclared(feature_names, HandedRecord, now)
    /\ (pc = "idle" /\ nreq = 0 /\ ticks = 0) =>
          \A feature_names \in FeatureNameLists, weather_data \in GridAdapterRecords :
              FeaturesAsDeclared(feature_names, weather_data, now)

\* a model-backed answer on a record without radiation and specific
\* humidity: their entries are the defaults, the entry of WS2M_scaled is 0
C29_Witness ==
    /\ ModelBacked
    /\ {"radiation", "specific_humidity"} \cap DOMAIN obs.lookup = {}
    /\ LET out == prepare_features(config.lstm_loader,
                      <<"ALLSKY_SFC_SW_DWN_scaled", "WS2M_scaled", "QV2M_scaled", "T2M_scaled">>,
                      HandedRecord, now)
       IN  /\ ~out.raised
           /\ out.array = <<2000, 0, 100, obs.lookup.temperature>>

====
